---- MODULE Spec2Model ----
(***************************************************************************)
(* Holoportation / LiveScan3D: a model of the multi-camera coordinator     *)
(* (CameraServer, CameraClient, SettingsForm), of one capture pipeline     *)
(* (LiveScanClient, OrbbecCaptureManager) and of the point-cloud streaming *)
(* socket (PointCloudTransferSocket).                                      *)
(*                                                                         *)
(* Threads are modelled by program counters.  A step of a thread is one    *)
(* access to state that another thread can see; code that runs under       *)
(* CameraServer.clientLock is one step unless the holder keeps the lock    *)
(* over several calls (EnableSync / DisableSync on the UI thread).         *)
(***************************************************************************)
EXTENDS Integers, Sequences, FiniteSets, TLC

(***************************************************************************)
(* Bounds of the model                                                     *)
(***************************************************************************)
NumCams == 3
MaxRounds == 2
MaxSerialLen == 1
MaxFaults == 1
MaxFrames == 2
MaxPoints == 1
MaxRequests == 2
MaxCloud == 2
MaxDocs == 2
MaxCandidates == 3
MaxSubmits == 3
MaxRecorded == 2
MaxReads == 3
MaxProcessed == 1
MaxCalibrations == 2
MaxMoves == 1
MaxRaises == 2
MaxRecordings == 2
MaxMerges == 2
MaxEncodes == 2
MaxConnects == 2
MaxStored == 4

Cams == 0 .. (NumCams - 1)

(***************************************************************************)
(* Program constants                                                       *)
(***************************************************************************)
SyncDelayUs == 160

\* enum SyncState of the pipeline (utils.h) and of the server (Utils.cs)
Subordinate == 0
Master == 1
Standalone == 2
Unknown == 3

ClientSyncStates == {Subordinate, Master, Standalone}

(***************************************************************************)
(* Serial numbers are strings: sequences of code units.                    *)
(***************************************************************************)
SerialChars == {1, 2}

RECURSIVE SeqsUpTo(_)
SeqsUpTo(n) ==
    IF n = 0 THEN {<<>>}
    ELSE LET shorter == SeqsUpTo(n - 1)
         IN  shorter \cup {Append(s, ch) : s \in shorter, ch \in SerialChars}

Serials == SeqsUpTo(MaxSerialLen)

\* CameraClient.SerialNumber before the pipeline has reported one
\* ("XXXXXXXXXXX"): a non-empty string
DefaultSerial == <<3>>

\* StringComparer.Ordinal: code unit by code unit, a proper prefix is smaller
RECURSIVE CompareOrdinal(_, _)
CompareOrdinal(a, b) ==
    IF a = <<>> /\ b = <<>> THEN 0
    ELSE IF a = <<>> THEN -1
    ELSE IF b = <<>> THEN 1
    ELSE IF Head(a) < Head(b) THEN -1
    ELSE IF Head(a) > Head(b) THEN 1
    ELSE CompareOrdinal(Tail(a), Tail(b))

(***************************************************************************)
(* OrbbecCaptureManager: the state of one capture manager is a record      *)
(*   isInitialized, pipeline ("null" | "created" | "streaming"),           *)
(*   syncMode, trigger2ImageDelayUs (the device's sync configuration).     *)
(* Close and Initialize return [cm |-> new state, res |-> return value];   *)
(* the frame that AcquireFrame stores belongs to the worker thread's part  *)
(* of the model.                                                           *)
(***************************************************************************)
NewCaptureManager ==
    [isInitialized |-> FALSE, pipeline |-> "null", syncMode |-> "DEFAULT",
     trigger2ImageDelayUs |-> 0]

CloseOutcomes == {"ok", "throws"}
InitOutcomes == {"ok", "nodevice", "startfail", "timeout"}
FrameOutcomes == {"frame", "none"}

\* OrbbecCaptureManager::AcquireFrame, the test it makes first
AcquireFrame_Ready(cm) == cm.isInitialized /\ cm.pipeline # "null"

\* OrbbecCaptureManager::AcquireFrame, its return value; `out` is what
\* waitForFrames delivers
AcquireFrame(cm, out) ==
    IF ~AcquireFrame_Ready(cm)
    THEN FALSE
    ELSE out = "frame" /\ cm.pipeline = "streaming"

\* OrbbecCaptureManager::Close; `out` = "throws" when the SDK raises ob::Error
Close(cm, out) ==
    IF ~cm.isInitialized
    THEN [cm |-> cm, res |-> FALSE]
    ELSE IF out = "ok"
    THEN [cm |-> [cm EXCEPT !.pipeline = "null", !.isInitialized = FALSE],
          res |-> TRUE]
    ELSE [cm |-> cm, res |-> FALSE]

SyncModeOf(state) ==
    IF state = Master THEN "PRIMARY"
    ELSE IF state = Subordinate THEN "SECONDARY"
    ELSE "STANDALONE"

\* OrbbecCaptureManager::Initialize.  Outcomes: "nodevice" TryOpenDevice
\* fails; "startfail" pipeline->start throws; "timeout" no frame within the
\* five seconds of the liveness check (not made for a Subordinate); "ok".
Initialize(cm, state, syncOffsetMultiplier, out) ==
    IF out = "nodevice"
    THEN [cm |-> [cm EXCEPT !.isInitialized = FALSE], res |-> FALSE]
    ELSE
      LET configured ==
            [cm EXCEPT !.syncMode = SyncModeOf(state),
                       !.trigger2ImageDelayUs =
                           IF state = Subordinate
                           THEN SyncDelayUs * syncOffsetMultiplier ELSE @]
      IN  IF out = "startfail"
          THEN [cm |-> [configured EXCEPT !.pipeline = "created",
                                          !.isInitialized = FALSE],
                res |-> FALSE]
          ELSE
            LET started == [configured EXCEPT !.pipeline = "streaming",
                                              !.isInitialized = TRUE]
            IN  IF state = Subordinate
                THEN [cm |-> started, res |-> TRUE]
                ELSE IF out = "timeout"
                THEN [cm |-> [started EXCEPT !.isInitialized = FALSE],
                      res |-> FALSE]
                ELSE [cm |-> started, res |-> AcquireFrame(started, "frame")]

(***************************************************************************)
(* LiveScanClient: the sync part of one pipeline is a record               *)
(*   currentSyncState, isRestartingCamera, isConfirmSyncStateRequested,    *)
(*   isConfirmRestartAsMasterRequested.                                    *)
(* The constructor gives no value to currentSyncState nor to               *)
(* isConfirmSyncStateRequested: noValue holds the names of the fields that *)
(* have not been written yet, and a read of such a field can deliver any   *)
(* value of its type.                                                      *)
(* An operation returns [cl |-> client, cm |-> capture manager,            *)
(*                       res |-> the value of its local `res`].            *)
(***************************************************************************)
\* a vector of points or of colours: the frame it was computed from and its
\* size; the vectors are empty after construction
NoFrame == [frame |-> 0, size |-> 0]

NewLiveScanClient ==
    [currentSyncState |-> Unknown,
     isRestartingCamera |-> FALSE,
     isConfirmSyncStateRequested |-> FALSE,
     isConfirmRestartAsMasterRequested |-> FALSE,
     lastFrameVertices |-> NoFrame,
     lastFrameColors |-> NoFrame,
     noValue |-> {"currentSyncState", "isConfirmSyncStateRequested"}]

\* values a read of field f can deliver
ReadOf(cl, f, domain) == IF f \in cl.noValue THEN domain ELSE {cl[f]}

\* cases 0 and 2 of LiveScanClient::EnableSync, and DisableSync: close,
\* reopen in `state`, raise the sync-state confirmation
Reopen(cl, cm, state, syncOffset, closeOut, initOut) ==
    LET cl1 == [cl EXCEPT !.currentSyncState = state,
                          !.isRestartingCamera = TRUE,
                          !.noValue = @ \ {"currentSyncState"}]
        closed == Close(cm, closeOut)
        opened == Initialize(closed.cm, state, syncOffset, initOut)
    IN  IF ~closed.res
        THEN [cl |-> cl1, cm |-> closed.cm, res |-> FALSE]
        ELSE IF ~opened.res
        THEN [cl |-> cl1, cm |-> opened.cm, res |-> FALSE]
        ELSE [cl |-> [cl1 EXCEPT !.isConfirmSyncStateRequested = TRUE,
                                 !.isRestartingCamera = FALSE,
                                 !.noValue = @ \ {"isConfirmSyncStateRequested"}],
              cm |-> opened.cm, res |-> TRUE]

\* case 1 of LiveScanClient::EnableSync written like case 0: the camera is
\* reopened at once
CloseAsMaster_Reopening(cl, cm, closeOut) ==
    Reopen(cl, cm, Master, 0, closeOut, "ok")

\* case 1 of LiveScanClient::EnableSync: close and confirm, do not reopen
CloseAsMaster(cl, cm, closeOut) ==
    LET cl1 == [cl EXCEPT !.currentSyncState = Master,
                          !.isRestartingCamera = TRUE,
                          !.noValue = @ \ {"currentSyncState"}]
        closed == Close(cm, closeOut)
    IN  IF ~closed.res
        THEN [cl |-> cl1, cm |-> closed.cm, res |-> FALSE]
        ELSE [cl |-> [cl1 EXCEPT !.isConfirmSyncStateRequested = TRUE,
                                 !.noValue = @ \ {"isConfirmSyncStateRequested"}],
              cm |-> closed.cm, res |-> TRUE]

\* LiveScanClient::EnableSync
ClientEnableSync(cl, cm, syncState, syncOffset, closeOut, initOut) ==
    IF syncState = 0
    THEN Reopen(cl, cm, Subordinate, syncOffset, closeOut, initOut)
    ELSE IF syncState = 1
    THEN CloseAsMaster(cl, cm, closeOut)
    ELSE IF syncState = 2
    THEN Reopen(cl, cm, Standalone, 0, closeOut, initOut)
    ELSE [cl |-> cl, cm |-> cm, res |-> FALSE]

\* LiveScanClient::DisableSync
ClientDisableSync(cl, cm, closeOut, initOut) ==
    Reopen(cl, cm, Standalone, 0, closeOut, initOut)

\* the number of SDK failures among the outcomes drawn for one handler
RECURSIVE Faulty(_)
Faulty(outs) ==
    IF outs = <<>> THEN 0
    ELSE (IF Head(outs) = "ok" THEN 0 ELSE 1) + Faulty(Tail(outs))

\* LiveScanClient::StartMaster; `state` is what the read of currentSyncState
\* delivers
ClientStartMaster(cl, cm, state, initOut) ==
    IF state = Master
    THEN LET opened == Initialize(cm, Master, 0, initOut)
         IN  IF ~opened.res
             THEN [cl |-> cl, cm |-> opened.cm, res |-> FALSE]
             ELSE [cl |-> [cl EXCEPT !.isConfirmRestartAsMasterRequested = TRUE,
                                     !.isRestartingCamera = FALSE],
                   cm |-> opened.cm, res |-> TRUE]
    ELSE [cl |-> cl, cm |-> cm, res |-> FALSE]

\* LiveScanClient::ConfirmSyncState, the value sent for currentSyncState
SyncStateToSend(state) ==
    IF state = Subordinate THEN 0
    ELSE IF state = Master THEN 1
    ELSE 2

\* the lambda of CameraClient.SetConfirmSyncStateCallback: int -> SyncState
ConfigOf(state) ==
    IF state = 0 THEN Subordinate
    ELSE IF state = 1 THEN Master
    ELSE IF state = 2 THEN Standalone
    ELSE Unknown


VARIABLES
    \* CameraServer
    allDevicesInitialized,
    waitForSubordinateStart,
    liveScanClients,     \* CameraClient objects: SerialNumber, CurrentSyncState, IsStarted
    \* UI thread inside CameraServer.EnableSync / DisableSync (holds clientLock)
    uiPc,
    uiQueue,
    btSyncEnable,        \* SettingsForm: btSyncEnable.Enabled (= ~btSyncDisable.Enabled)
    rounds,
    startMasterCalls,
    \* the pipelines
    client,              \* LiveScanClient objects
    captureManager,      \* OrbbecCaptureManager objects
    lastCall,            \* the last control call each pipeline received
    running,             \* LiveScanClient::Run has opened the camera and started the threads
    deviceSerial,        \* the serial number of the device attached to each pipeline
    faults,              \* adverse outcomes still allowed: a failure of the camera
                         \* SDK, or a flag without a value that reads true
    \* confirmations thread of each pipeline (SendClientConfirmations)
    confPc,
    ackState,
    \* worker thread of each pipeline (the loop of Run: UpdateFrame)
    workerPc,
    frameset,            \* the frame the worker has acquired and is processing
    frameCount,          \* frames acquired so far
    \* TransferServer, its point cloud sockets and the viewers
    pointCloudClients,   \* List<PointCloudTransferSocket>, by viewer
    senderPc,            \* the task SendPointCloudToAllClients
    senderI,             \* its index i into pointCloudClients
    requestBuffer,       \* SendPointCloud: the bytes Receive(1) returned
    inbound,             \* per viewer: request bytes written and not yet read by the server
    sent,                \* per viewer: every request byte written so far
    outbound,            \* per viewer: every write of the server to the stream
    failed,              \* per viewer: a write to the connection has thrown
    viewerPc,            \* per viewer: ReceivePointClouds
    framesRead,          \* per viewer: frames read from the stream
    recording,           \* sent and outbound are kept (they are the history of the channel)
    \* the document channel
    DocumentInfo,        \* CameraServer.DocumentInfo, shared with TransferServer
    received,            \* documents received from the pipelines so far
    documentClients,     \* TransferServer.documentClients
    docPc,               \* the task SendDocumentToAllClients
    docI,                \* its index i into documentClients
    docData,             \* the argument data of the running SendDocument call
    docBuffer,           \* requestBuffer of the running SendDocument call
    docInbound,          \* per viewer: request bytes written and not yet read
    written,             \* per viewer: the documents written to its stream
    docViewerPc,         \* per viewer: ReceiveDocuments
    docsRead,            \* per viewer: documents read from the stream
    \* the connections of the point cloud server
    senderSock,          \* the socket the running SendPointCloud call was made on
    accepted,            \* per viewer: AcceptTcpClient has returned its connection
    dropped,             \* per viewer: the connection is gone (peer closed, link lost)
    \* LiveScanClient::ProcessDocument
    newDocument,         \* captureManager->lastDocumentData and lastDocumentScore
    lastDocumentData,    \* LiveScanClient::lastDocumentData
    lastDocumentScore,
    lastDocumentSendTime,
    unassigned,          \* the fields of LiveScanClient no value was assigned to yet
    isSendDocumentRequested,
    nowMs,               \* std::chrono::steady_clock, in milliseconds
    candidates,          \* candidates processed so far
    published,           \* the candidates published so far: data, score, time
    \* DocumentDetector
    pendingColorFrame,   \* the submitted frames are numbered from 1; 0 is nullptr
    pendingDepthFrame,
    newFrameAvailable,
    stopThread,
    detectPc,            \* the detection thread
    localColor,
    localDepth,
    submitted,           \* frames submitted so far
    processed,           \* the (color, depth) pairs given to Detect, in order
    detections,          \* calls of resultCallback
    \* recording and playback
    recFile,             \* the bytes of the recording file
    recFrames,           \* the frames given to WriteFrame, in order
    recPc,               \* "writing" or "reading"
    playerPos,           \* FrameFileReaderBin: BaseStream.Position
    playerOut,           \* the frames FrameFileReaderBin.ReadFrame has returned
    playerPc,            \* "ok", or how ReadFrame has failed
    clientPos,           \* FrameIOHandler: the position of fileHandle
    clientOut,           \* the frames FrameIOHandler::ReadFrame has returned
    clientDone,          \* FrameIOHandler::ReadFrame has returned false
    \* LiveScanClient::ProcessFrame
    calibration,         \* LiveScanClient::calibration
    bounds,              \* LiveScanClient::bounds
    isFilterEnabled,
    cameraVertices,      \* captureManager->lastFrameVertices
    goodVertices,        \* the vertices ProcessFrame keeps, before the conversion to shorts
    lastFrameVertices,   \* LiveScanClient::lastFrameVertices, in millimetres
    framesProcessed,     \* calls of ProcessFrame
    \* the calibration of a camera
    isCalibrateRequested,
    isConfirmCalibratedRequested,
    calibrateRes,        \* res of the last call of Calibrate in UpdateFrame
    scene,               \* the marker in front of the camera
    calibrateRequests,   \* calls of LiveScanClient::Calibrate
    moves,               \* changes of the scene
    finalisations,       \* calls of Calibrate that have returned true
    steady,              \* every sample so far shows the marker of this scene
    \* VoxelGridFilter
    voxelGrid,           \* VoxelGridFilter::voxelGrid: the indices that are true
    inserted,            \* the last call of Insert since Reset: its point and result
    granted,             \* the cells Insert has returned true for since the last Reset
    \* the one-shot flags and the confirmations thread
    requested,           \* the one-shot flags of LiveScanClient, by name
    neverAssigned,       \* the flags no thread has assigned yet
    sccPc,               \* SendClientConfirmations: the flag it is at, and where
    raises,              \* the times a thread has set a flag
    callbacks,           \* the times the callback of a flag has been called
    \* the recording of frames by the server
    recorderPc,          \* RecordFrames and StartFrameRecording: where the worker is
    recordings,          \* calls of StartFrameRecording that have returned
    IsFrameRecorded,     \* CameraClient.IsFrameRecorded, by camera
    isRecordFrameRequested,\* by camera
    isConfirmRecordedRequested,\* by camera
    updatePc,            \* UpdateFrame, lines 367-375: where the capture thread is
    ackPc,               \* SendClientConfirmations, lines 308-311, by camera
    tick,                \* the parity of the frames a camera has acquired
    \* the fused buffers shared by the update worker and the broadcaster
    Vertices,            \* MainWindowForm.vertices, the list TransferServer.Vertices points to
    Colors,              \* MainWindowForm.colors, the list TransferServer.Colors points to
    cameraFrames,        \* cameraVertices / cameraColors: per camera, the frame and its points
    lockOwner,           \* who holds the monitor of the list Vertices
    mergePc,             \* UpdateLatestFrame: where the update worker is, and its index i
    encodePc,            \* SendPointCloudToAllClients: where the broadcaster is
    encoded,             \* what the last call of SendPointCloud has read
    merges,              \* how many times UpdateLatestFrame has fetched the frames
    encodes,             \* how many frames the broadcaster has encoded
    \* the stop of the point cloud server and of a pipeline
    isPointCloudServerRunning,\* TransferServer.isPointCloudServerRunning
    tokenCancelled,      \* pointCloudCancellationTokenSource has been cancelled
    listening,           \* pointCloudListener is started
    timerEnabled,        \* pointCloudConnectionTimer is started
    handlerPending,      \* an Elapsed handler of the timer has been queued to the thread pool
    clientSockets,       \* the list pointCloudClients: for each socket, whether it is connected
    listVersion,         \* List._version of pointCloudClients, the parity of its modifications
    stopPc,              \* StopPointCloudServer: where the caller is, and the version its foreach began with
    acceptPc,            \* the task ConnectPointCloudClients
    broadcastPc,         \* the task SendPointCloudToAllClients
    connects,            \* how many viewers have connected
    isExitRequested,     \* LiveScanClient::isExitRequested
    isClientThreadRunning,\* LiveScanClient::isClientThreadRunning
    runPc,               \* LiveScanClient::Run
    confirmationsPc,     \* the thread of SendClientConfirmations
    stopClientPc,        \* the API call StopClient
    \* the document channel: the size of the documents, and the callback in progress
    docWidth,            \* SendDocument: the width (and height) the call was given
    docWidths,           \* the width (and height) of each document the pipelines have sent
    docBegun,            \* the document DocumentInfo held when the last broadcast began
    receivePc,           \* OnReceiveDocument: where the callback is
    \* the detection result handed from the detector thread to the capture worker
    hasNewDocument,      \* OrbbecCaptureManager::hasNewDocument
    lastDocument,        \* lastDocumentData, Width, Height and Score of the capture manager: the number of the result they hold
    callbackPc,          \* the detection callback, on the detector thread
    stored,              \* how many results the detector thread has passed to the callback
    documentPc,          \* UpdateFrame, lines 360-364: where the worker is
    processedDocuments   \* the results ProcessDocument has been called for

serverVars == <<allDevicesInitialized, waitForSubordinateStart, liveScanClients,
                uiPc, uiQueue, btSyncEnable, rounds, startMasterCalls>>

pipeVars == <<client, captureManager, lastCall, running, deviceSerial, faults>>

confVars == <<confPc, ackState>>

workerVars == <<workerPc, frameset, frameCount>>

transferVars == <<pointCloudClients, senderPc, senderI, requestBuffer,
                  inbound, sent, outbound, failed, viewerPc, framesRead, recording>>

\* the variables of the other parts of the program
docVars == <<DocumentInfo, received, documentClients, docPc, docI, docData, docBuffer,
             docInbound, written, docViewerPc, docsRead>>

healthVars == <<senderSock, accepted, dropped>>

publishVars == <<newDocument, lastDocumentData, lastDocumentScore, lastDocumentSendTime,
                 unassigned, isSendDocumentRequested, nowMs, candidates, published>>

detectorVars == <<pendingColorFrame, pendingDepthFrame, newFrameAvailable, stopThread,
                  detectPc, localColor, localDepth, submitted, processed, detections>>

recVars == <<recFile, recFrames, recPc, playerPos, playerOut, playerPc, clientPos,
             clientOut, clientDone>>

filterVars == <<calibration, bounds, isFilterEnabled, cameraVertices, goodVertices,
                lastFrameVertices, framesProcessed>>

calVars == <<isCalibrateRequested, isConfirmCalibratedRequested, calibrateRes, scene,
             calibrateRequests, moves, finalisations, steady>>

voxelVars == <<voxelGrid, inserted, granted>>

confirmVars == <<requested, neverAssigned, sccPc, raises, callbacks>>

recordVars == <<recorderPc, recordings, IsFrameRecorded, isRecordFrameRequested,
                isConfirmRecordedRequested, updatePc, ackPc, tick>>

fuseVars == <<Vertices, Colors, cameraFrames, lockOwner, mergePc, encodePc, encoded,
              merges, encodes>>

stopVars == <<isPointCloudServerRunning, tokenCancelled, listening, timerEnabled,
              handlerPending, clientSockets, listVersion, stopPc, acceptPc, broadcastPc,
              connects, isExitRequested, isClientThreadRunning, runPc, confirmationsPc,
              stopClientPc>>

docxVars == <<docWidth, docWidths, docBegun, receivePc>>

resultVars == <<hasNewDocument, lastDocument, callbackPc, stored, documentPc,
                processedDocuments>>

\* all of them but one group
exceptDoc == <<healthVars, publishVars, detectorVars, recVars, filterVars, calVars,
               voxelVars, confirmVars, recordVars, fuseVars, stopVars, docxVars,
               resultVars>>

exceptDocs == <<healthVars, publishVars, detectorVars, recVars, filterVars, calVars,
                voxelVars, confirmVars, recordVars, fuseVars, stopVars, resultVars>>
exceptHealth == <<docVars, publishVars, detectorVars, recVars, filterVars, calVars,
                  voxelVars, confirmVars, recordVars, fuseVars, stopVars, docxVars,
                  resultVars>>
exceptPublish == <<docVars, healthVars, detectorVars, recVars, filterVars, calVars,
                   voxelVars, confirmVars, recordVars, fuseVars, stopVars, docxVars,
                   resultVars>>
exceptDetector == <<docVars, healthVars, publishVars, recVars, filterVars, calVars,
                    voxelVars, confirmVars, recordVars, fuseVars, stopVars, docxVars,
                    resultVars>>
exceptRec == <<docVars, healthVars, publishVars, detectorVars, filterVars, calVars,
               voxelVars, confirmVars, recordVars, fuseVars, stopVars, docxVars,
               resultVars>>
exceptFilter == <<docVars, healthVars, publishVars, detectorVars, recVars, calVars,
                  voxelVars, confirmVars, recordVars, fuseVars, stopVars, docxVars,
                  resultVars>>
\* all of them but the filter and the calibration
exceptCal == <<docVars, healthVars, publishVars, detectorVars, recVars, voxelVars,
               confirmVars, recordVars, fuseVars, stopVars, docxVars, resultVars>>

exceptVoxel == <<docVars, healthVars, publishVars, detectorVars, recVars, filterVars,
                 calVars, confirmVars, recordVars, fuseVars, stopVars, docxVars,
                 resultVars>>

exceptConfirm == <<docVars, healthVars, publishVars, detectorVars, recVars, filterVars,
                   calVars, voxelVars, recordVars, fuseVars, stopVars, docxVars,
                   resultVars>>

exceptRecord == <<docVars, healthVars, publishVars, detectorVars, recVars, filterVars,
                  calVars, voxelVars, confirmVars, fuseVars, stopVars, docxVars,
                  resultVars>>

exceptFuse == <<docVars, healthVars, publishVars, detectorVars, recVars, filterVars,
                calVars, voxelVars, confirmVars, recordVars, stopVars, docxVars,
                resultVars>>

exceptStop == <<docVars, healthVars, publishVars, detectorVars, recVars, filterVars,
                calVars, voxelVars, confirmVars, recordVars, fuseVars, docxVars,
                resultVars>>

exceptDocx == <<docVars, healthVars, publishVars, detectorVars, recVars, filterVars,
                calVars, voxelVars, confirmVars, recordVars, fuseVars, stopVars,
                resultVars>>

exceptResult == <<docVars, healthVars, publishVars, detectorVars, recVars, filterVars,
                  calVars, voxelVars, confirmVars, recordVars, fuseVars, stopVars,
                  docxVars>>

otherVars == <<docVars, healthVars, publishVars, detectorVars, recVars, filterVars,
               calVars, voxelVars, confirmVars, recordVars, fuseVars, stopVars, docxVars,
               resultVars>>

vars == <<serverVars, pipeVars, confVars, workerVars, transferVars, otherVars>>

\* the viewers of the point cloud port: the HoloLens receiver
\* (ObjectControllerIO), and one more TCP client, which can be any program
HoloLens == "hololens"
OtherClient == "client"
Viewers == {HoloLens, OtherClient}

\* TransferServer after construction and StartPointCloudServer: no viewer yet
InitTransfer ==
    /\ pointCloudClients = <<>>
    /\ senderPc = "delay"
    /\ senderI = 1
    /\ requestBuffer = <<>>
    /\ inbound = [v \in Viewers |-> <<>>]
    /\ sent = [v \in Viewers |-> <<>>]
    /\ outbound = [v \in Viewers |-> <<>>]
    /\ failed = [v \in Viewers |-> FALSE]
    /\ viewerPc = [v \in Viewers |-> "none"]
    /\ framesRead = [v \in Viewers |-> 0]
    /\ recording = TRUE

\* the other parts of the program after construction
\* DocumentInfo after construction: no data, not new.  A document is
\* modelled by its number, 0 for none.
InitDocument ==
    /\ DocumentInfo = [Data |-> 0, Width |-> 0, IsNew |-> FALSE]
    /\ received = 0
    /\ documentClients = <<>>
    /\ docPc = "delay"
    /\ docI = 1
    /\ docData = 0
    /\ docBuffer = <<>>
    /\ docInbound = [v \in Viewers |-> <<>>]
    /\ written = [v \in Viewers |-> <<>>]
    /\ docViewerPc = [v \in Viewers |-> "none"]
    /\ docsRead = [v \in Viewers |-> 0]

\* the connections after construction: nothing accepted, nothing dropped
InitHealth ==
    /\ senderSock = HoloLens
    /\ accepted = [v \in Viewers |-> FALSE]
    /\ dropped = [v \in Viewers |-> FALSE]

\* an empty cv::Mat
EmptyMat == -1

\* the gray levels of the uniform images the candidates are drawn from, and
\* their scores
Levels == {0, 100, 200}
Scores == {1, 2}

\* LiveScanClient after construction: lastDocumentData is an empty Mat; the
\* constructor assigns neither lastDocumentScore, lastDocumentSendTime nor
\* isSendDocumentRequested
InitPublish ==
    /\ newDocument = [data |-> EmptyMat, score |-> 0]
    /\ lastDocumentData = EmptyMat
    /\ lastDocumentScore = 0
    /\ lastDocumentSendTime = 0
    /\ isSendDocumentRequested = FALSE
    /\ unassigned = {"lastDocumentScore", "lastDocumentSendTime", "isSendDocumentRequested"}
    /\ nowMs = 0
    /\ candidates = 0
    /\ published = <<>>

\* DocumentDetector after construction: no pending frame, the detection
\* thread started and at its wait
InitDetector ==
    /\ pendingColorFrame = 0
    /\ pendingDepthFrame = 0
    /\ newFrameAvailable = FALSE
    /\ stopThread = FALSE
    /\ detectPc = "wait"
    /\ localColor = 0
    /\ localDepth = 0
    /\ submitted = 0
    /\ processed = <<>>
    /\ detections = 0

\* FrameIOHandler after construction: no file yet, nothing written or read
InitRecording ==
    /\ recFile = <<>>
    /\ recFrames = <<>>
    /\ recPc = "writing"
    /\ playerPos = 0
    /\ playerOut = <<>>
    /\ playerPc = "ok"
    /\ clientPos = 0
    /\ clientOut = <<>>
    /\ clientDone = FALSE

\* Lengths of the capture pipeline are in units of MinPrecision / 10, that
\* is 0.3 / 2550 m: MinPrecision = Range / 255 is 10 units, HalfRange 1275
\* units, the bound 0.5 m of the constructor 4250 units.
MinPrecisionUnits == 10
HalfRangeUnits == 1275
DefaultBound == 4250

Identity3 == <<<<1, 0, 0>>, <<0, 1, 0>>, <<0, 0, 1>>>>

\* Calibration::Calibration and the constructor of LiveScanClient: not
\* calibrated, worldT zero, worldR the identity, bounds of half a metre
InitFilter ==
    /\ calibration = [isCalibrated |-> FALSE, worldT |-> <<0, 0, 0>>, worldR |-> Identity3,
                      usedMarkerId |-> -1, numSamples |-> 0, markerSamplePositions |-> <<>>]
    /\ bounds = <<-DefaultBound, -DefaultBound, -DefaultBound,
                  DefaultBound, DefaultBound, DefaultBound>>
    /\ isFilterEnabled = FALSE
    /\ cameraVertices = <<>>
    /\ goodVertices = <<>>
    /\ lastFrameVertices = <<>>
    /\ framesProcessed = 0

\* the marker poses of the settings (LiveScanClient::SetSettings): the
\* marker 0 at the origin of the world, the marker 1 turned and one and
\* two thirds marker widths along the x axis
RotZ == <<<<0, -1, 0>>, <<1, 0, 0>>, <<0, 0, 1>>>>
markerPoses ==
    <<[MarkerId |-> 0, R |-> Identity3, T |-> <<0, 0, 0>>],
      [MarkerId |-> 1, R |-> RotZ, T |-> <<100, 0, 0>>]>>

\* the marker seen at the start: marker 0, a thousand units in front of the
\* camera, the camera facing it
FirstScene == [Id |-> 0, at |-> <<0, 0, 1000>>, facing |-> Identity3]

\* the constructor of LiveScanClient, lines 35 and 39: nothing requested
InitCal ==
    /\ isCalibrateRequested = FALSE
    /\ isConfirmCalibratedRequested = FALSE
    /\ calibrateRes = "none"
    /\ scene = FirstScene
    /\ calibrateRequests = 0
    /\ moves = 0
    /\ finalisations = 0
    /\ steady = TRUE

\* VoxelGridFilter::VoxelGridFilter, line 37: every entry false
InitVoxel ==
    /\ voxelGrid = {}
    /\ inserted = [point |-> <<>>, res |-> FALSE]
    /\ granted = {}

\* the flags SendClientConfirmations polls, in its order
ConfirmFlags ==
    <<"isConfirmRecordedRequested", "isConfirmCalibratedRequested",
      "isConfirmSyncStateRequested", "isConfirmRestartAsMasterRequested",
      "isSendDocumentRequested">>

FlagNames == {ConfirmFlags[i] : i \in DOMAIN ConfirmFlags}

\* the constructor of LiveScanClient, lines 32-47: isConfirmSyncStateRequested
\* and isSendDocumentRequested have no initializer
InitConfirm ==
    /\ requested = [f \in FlagNames |-> FALSE]
    /\ neverAssigned = {"isConfirmSyncStateRequested", "isSendDocumentRequested"}
    /\ sccPc = [at |-> 1, in |-> "test"]
    /\ raises = [f \in FlagNames |-> 0]
    /\ callbacks = [f \in FlagNames |-> 0]

\* the cameras of a recording
RecordingCams == {0, 1}

\* CameraClient line 129 and the constructor of LiveScanClient, lines 37-38
InitRecord ==
    /\ recorderPc = [at |-> "idle", i |-> 0]
    /\ recordings = 0
    /\ IsFrameRecorded = [c \in RecordingCams |-> FALSE]
    /\ isRecordFrameRequested = [c \in RecordingCams |-> FALSE]
    /\ isConfirmRecordedRequested = [c \in RecordingCams |-> FALSE]
    /\ updatePc = [c \in RecordingCams |-> "test"]
    /\ ackPc = [c \in RecordingCams |-> "test"]
    /\ tick = [c \in RecordingCams |-> 0]

\* MainWindowForm, lines 63-78 and 104-105: the lists are empty and
\* TransferServer.Vertices / Colors are the lists of the form
InitFuse ==
    /\ Vertices = <<>>
    /\ Colors = <<>>
    /\ cameraFrames = <<>>
    /\ lockOwner = "none"
    /\ mergePc = [at |-> "sleep", i |-> 0]
    /\ encodePc = "delay"
    /\ encoded = [vertices |-> <<>>, colors |-> <<>>]
    /\ merges = 0
    /\ encodes = 0

\* TransferServer after StartPointCloudServer (lines 60-96) and a pipeline
\* after StartClient: the constructor of LiveScanClient gives
\* isExitRequested no value
InitStop ==
    /\ isPointCloudServerRunning = TRUE
    /\ tokenCancelled = FALSE
    /\ listening = TRUE
    /\ timerEnabled = TRUE
    /\ handlerPending = FALSE
    /\ clientSockets = <<>>
    /\ listVersion = 0
    /\ stopPc = [at |-> "none", version |-> 0]
    /\ acceptPc = "test"
    /\ broadcastPc = "test"
    /\ connects = 0
    /\ isExitRequested = <<>>
    /\ isClientThreadRunning = TRUE
    /\ runPc = "loop"
    /\ confirmationsPc = "poll"
    /\ stopClientPc = "none"

\* DocumentInfo after construction has width and height 0
InitDocumentSize ==
    /\ docWidth = 0
    /\ docWidths = <<>>
    /\ docBegun = 0
    /\ receivePc = "idle"

\* OrbbecCaptureManager after construction: no result stored; the
\* declaration of hasNewDocument is not part of the sources at hand and the
\* flag is taken to start false
InitResult ==
    /\ hasNewDocument = FALSE
    /\ lastDocument = 0
    /\ callbackPc = "idle"
    /\ stored = 0
    /\ documentPc = "test"
    /\ processedDocuments = <<>>

InitOther ==
    /\ InitDocument /\ InitHealth /\ InitPublish /\ InitDetector /\ InitRecording
    /\ InitFilter /\ InitCal /\ InitVoxel /\ InitConfirm /\ InitRecord /\ InitFuse /\ InitStop /\ InitDocumentSize /\ InitResult

(***************************************************************************)
(* CameraServer, CameraClient and SettingsForm                             *)
(***************************************************************************)
NewCameraClient ==
    [SerialNumber |-> DefaultSerial, CurrentSyncState |-> Standalone,
     IsStarted |-> FALSE, IsLatestFrameReceived |-> FALSE,
     FrameVertices |-> NoFrame, FrameColors |-> NoFrame, readPastEnd |-> FALSE]

NoCall ==
    [op |-> "none", syncState |-> Unknown, syncOffset |-> 0, res |-> FALSE]

\* liveScanClients is a List<CameraClient>: its order is the order of the indexes
ClientList == [i \in 1 .. NumCams |-> i - 1]

RECURSIVE SelectSeqOf(_, _)
SelectSeqOf(seq, keep) ==
    IF seq = <<>> THEN <<>>
    ELSE IF Head(seq) \in keep
         THEN <<Head(seq)>> \o SelectSeqOf(Tail(seq), keep)
         ELSE SelectSeqOf(Tail(seq), keep)

\* one insertion of OrderBy: after every element whose key is not greater
\* (OrderBy is a stable sort)
RECURSIVE InsertBySerial(_, _, _)
InsertBySerial(sorted, c, clients) ==
    IF sorted = <<>> THEN <<c>>
    ELSE IF CompareOrdinal(clients[Head(sorted)].SerialNumber,
                           clients[c].SerialNumber) <= 0
         THEN <<Head(sorted)>> \o InsertBySerial(Tail(sorted), c, clients)
         ELSE <<c>> \o sorted

RECURSIVE OrderBySerial(_, _)
OrderBySerial(seq, clients) ==
    IF seq = <<>> THEN <<>>
    ELSE InsertBySerial(OrderBySerial(SubSeq(seq, 1, Len(seq) - 1), clients),
                        seq[Len(seq)], clients)

\* CameraServer.EnableSync, lines 751-754
SortedClients(clients) ==
    OrderBySerial(SelectSeqOf(ClientList,
                              {c \in Cams : clients[c].SerialNumber # <<>>}),
                  clients)

Range(seq) == {seq[i] : i \in 1 .. Len(seq)}

\* CameraServer.EnableSync, lines 756-774: the calls it makes, in order
EnableSyncCalls(clients) ==
    LET sorted == SortedClients(clients)
        standaloneClients == SelectSeqOf(ClientList, Cams \ Range(sorted))
    IN  IF Len(sorted) = 0 THEN <<>>
        ELSE <<[cam |-> sorted[1], op |-> "enable_sync",
                syncState |-> Master, syncOffset |-> 0]>>
             \o [i \in 1 .. (Len(sorted) - 1) |->
                   [cam |-> sorted[i + 1], op |-> "enable_sync",
                    syncState |-> Subordinate, syncOffset |-> i]]
             \o [i \in 1 .. Len(standaloneClients) |->
                   [cam |-> standaloneClients[i], op |-> "enable_sync",
                    syncState |-> Standalone, syncOffset |-> 0]]

\* CameraServer.DisableSync, lines 784-787
DisableSyncCalls ==
    [i \in 1 .. NumCams |->
       [cam |-> ClientList[i], op |-> "disable_sync",
        syncState |-> Standalone, syncOffset |-> 0]]

\* SettingsForm.btSyncEnable_click with CameraServer.EnableSync up to its
\* first call: the UI thread takes clientLock and keeps it while it calls
\* the pipelines one after the other
EnableSyncBegin ==
    /\ uiPc = "idle"
    /\ btSyncEnable
    /\ rounds < MaxRounds
    /\ allDevicesInitialized
    /\ NumCams > 1
    /\ allDevicesInitialized' = FALSE
    /\ waitForSubordinateStart' = TRUE
    /\ uiQueue' = EnableSyncCalls(liveScanClients)
    /\ uiPc' = IF uiQueue' = <<>> THEN "idle" ELSE "dispatch"
    /\ btSyncEnable' = FALSE
    /\ rounds' = rounds + 1
    /\ startMasterCalls' = 0
    /\ UNCHANGED <<liveScanClients, pipeVars, transferVars, otherVars, confVars,
                   workerVars>>

\* SettingsForm.btSyncDisable_click with CameraServer.DisableSync up to its
\* first call
DisableSyncBegin ==
    /\ uiPc = "idle"
    /\ ~btSyncEnable
    /\ rounds < MaxRounds
    /\ allDevicesInitialized
    /\ btSyncEnable' = TRUE
    /\ allDevicesInitialized' = FALSE
    /\ uiQueue' = DisableSyncCalls
    /\ uiPc' = "dispatch"
    /\ rounds' = rounds + 1
    /\ UNCHANGED <<waitForSubordinateStart, startMasterCalls, liveScanClients,
                   pipeVars, transferVars, otherVars, confVars,
                   workerVars>>

\* the settings form is closed and opened again: LoadSettingsForm resets
\* the two buttons
OpenSettingsForm ==
    /\ uiPc = "idle"
    /\ ~btSyncEnable
    /\ btSyncEnable' = TRUE
    /\ UNCHANGED <<allDevicesInitialized, waitForSubordinateStart, liveScanClients,
                   uiPc, uiQueue, rounds, startMasterCalls, pipeVars, transferVars, otherVars, confVars,
                   workerVars>>

\* CameraClient.EnableSync / CameraClient.DisableSync: the server's record
\* of the camera is reset and the pipeline's handler runs on the calling
\* thread
CameraClientCall(c, op, syncState, syncOffset) ==
    \E closeOut \in CloseOutcomes, initOut \in InitOutcomes :
      LET r == IF op = "enable_sync"
               THEN ClientEnableSync(client[c], captureManager[c],
                                     syncState, syncOffset, closeOut, initOut)
               ELSE ClientDisableSync(client[c], captureManager[c],
                                      closeOut, initOut)
      IN  /\ liveScanClients' =
                 [liveScanClients EXCEPT ![c].IsStarted = FALSE,
                                         ![c].CurrentSyncState = Unknown]
          /\ client' = [client EXCEPT ![c] = r.cl]
          /\ captureManager' = [captureManager EXCEPT ![c] = r.cm]
          /\ lastCall' = [lastCall EXCEPT ![c] =
                 [op |-> op, syncState |-> syncState,
                  syncOffset |-> syncOffset, res |-> r.res]]
          /\ Faulty(<<closeOut, initOut>>) <= faults
          /\ faults' = faults - Faulty(<<closeOut, initOut>>)

\* one iteration of the loops of EnableSync / DisableSync
Dispatch ==
    /\ uiPc = "dispatch"
    /\ LET call == Head(uiQueue)
       IN  CameraClientCall(call.cam, call.op, call.syncState, call.syncOffset)
    /\ uiQueue' = Tail(uiQueue)
    /\ uiPc' = IF uiQueue' = <<>> THEN "idle" ELSE "dispatch"
    /\ UNCHANGED <<allDevicesInitialized, waitForSubordinateStart, btSyncEnable,
                   rounds, startMasterCalls, running, deviceSerial, transferVars, otherVars, confVars,
                   workerVars>>

\* LiveScanClient::Run up to its main loop: open the camera as Standalone,
\* report the serial number to the server, start the confirmations thread
Run(c) ==
    /\ ~running[c]
    /\ \E initOut \in InitOutcomes :
         LET opened == Initialize(captureManager[c], Standalone, 0, initOut)
         IN  /\ captureManager' = [captureManager EXCEPT ![c] = opened.cm]
             /\ liveScanClients' =
                    IF opened.res
                    THEN [liveScanClients EXCEPT ![c].SerialNumber = deviceSerial[c]]
                    ELSE liveScanClients
             /\ Faulty(<<initOut>>) <= faults
             /\ faults' = faults - Faulty(<<initOut>>)
    /\ running' = [running EXCEPT ![c] = TRUE]
    /\ UNCHANGED <<allDevicesInitialized, waitForSubordinateStart, uiPc, uiQueue,
                   btSyncEnable, rounds, startMasterCalls, client, lastCall, deviceSerial, transferVars, otherVars,
                   confVars,
                   workerVars>>

(***************************************************************************)
(* The confirmations thread of pipeline c (SendClientConfirmations) and    *)
(* the server callbacks it runs.                                           *)
(***************************************************************************)
\* the poll of isConfirmSyncStateRequested finds it false
PollSyncStateFlag(c) ==
    /\ running[c]
    /\ confPc[c] = "idle"
    /\ "isConfirmSyncStateRequested" \in client[c].noValue
    /\ client' = [client EXCEPT ![c].isConfirmSyncStateRequested = FALSE,
                                ![c].noValue = @ \ {"isConfirmSyncStateRequested"}]
    /\ UNCHANGED <<serverVars, captureManager, lastCall, running, deviceSerial, transferVars, otherVars,
                   faults, confVars,
                   workerVars>>

\* the poll finds isConfirmSyncStateRequested true: ConfirmSyncState reads
\* currentSyncState and calls the callback
ConfirmSyncState(c) ==
    /\ running[c]
    /\ confPc[c] = "idle"
    /\ TRUE \in ReadOf(client[c], "isConfirmSyncStateRequested", BOOLEAN)
    /\ LET spurious == IF "isConfirmSyncStateRequested" \in client[c].noValue
                       THEN 1 ELSE 0
       IN  /\ spurious <= faults
           /\ faults' = faults - spurious
    /\ \E state \in ReadOf(client[c], "currentSyncState",
                           ClientSyncStates \cup {Unknown}) :
         /\ client' = [client EXCEPT ![c].isConfirmSyncStateRequested = TRUE,
                                     ![c].currentSyncState = state,
                                     ![c].noValue = {}]
         /\ ackState' = [ackState EXCEPT ![c] = SyncStateToSend(state)]
    /\ confPc' = [confPc EXCEPT ![c] = "set_state"]
    /\ UNCHANGED <<serverVars, captureManager, lastCall, running, deviceSerial, transferVars, otherVars,
                   workerVars>>

\* CameraServer.OnConfirmSyncState: client.CurrentSyncState = state
OnConfirmSyncState_SetState(c) ==
    /\ confPc[c] = "set_state"
    /\ liveScanClients' =
           [liveScanClients EXCEPT ![c].CurrentSyncState = ConfigOf(ackState[c])]
    /\ confPc' = [confPc EXCEPT ![c] = "set_started"]
    /\ UNCHANGED <<allDevicesInitialized, waitForSubordinateStart, uiPc, uiQueue,
                   btSyncEnable, rounds, startMasterCalls, pipeVars, transferVars, otherVars, ackState,
                   workerVars>>

\* CameraServer.OnConfirmSyncState: client.IsStarted = ..., by state
OnConfirmSyncState_SetStarted(c) ==
    /\ confPc[c] = "set_started"
    /\ LET state == ConfigOf(ackState[c])
       IN  /\ liveScanClients' =
                  IF state = Subordinate \/ state = Standalone
                  THEN [liveScanClients EXCEPT ![c].IsStarted = TRUE]
                  ELSE IF state = Master
                  THEN [liveScanClients EXCEPT ![c].IsStarted = FALSE]
                  ELSE liveScanClients
           /\ confPc' = [confPc EXCEPT ![c] =
                  IF state = Subordinate THEN "start_master"
                  ELSE IF state = Standalone THEN "confirm_disabled"
                  ELSE "return"]
    /\ UNCHANGED <<allDevicesInitialized, waitForSubordinateStart, uiPc, uiQueue,
                   btSyncEnable, rounds, startMasterCalls, pipeVars, transferVars, otherVars, ackState,
                   workerVars>>

\* CameraServer.StartMaster, the check made before the lock is taken
StartMaster_Check(c) ==
    /\ confPc[c] = "start_master"
    /\ confPc' = [confPc EXCEPT ![c] =
           IF ~waitForSubordinateStart THEN "return" ELSE "start_master_locked"]
    /\ UNCHANGED <<serverVars, pipeVars, transferVars, otherVars, ackState,
                   workerVars>>

AllSubsStarted(clients) ==
    ~ \E k \in Cams : ~clients[k].IsStarted /\ clients[k].CurrentSyncState = Subordinate

Masters(clients) == {k \in Cams : clients[k].CurrentSyncState = Master}

FirstOf(S) == CHOOSE k \in S : \A j \in S : k <= j

\* CameraServer.StartMaster under clientLock; CameraClient.StartMaster runs
\* LiveScanClient::StartMaster of the Master pipeline on this thread
StartMaster_Locked(c) ==
    /\ confPc[c] = "start_master_locked"
    /\ uiPc = "idle"
    /\ waitForSubordinateStart' = FALSE
    /\ IF AllSubsStarted(liveScanClients) /\ Masters(liveScanClients) # {}
       THEN LET m == FirstOf(Masters(liveScanClients))
            IN  \E initOut \in InitOutcomes,
                   state \in ReadOf(client[m], "currentSyncState",
                                    ClientSyncStates \cup {Unknown}) :
                  LET r == ClientStartMaster(
                               [client[m] EXCEPT
                                    !.currentSyncState = state,
                                    !.noValue = @ \ {"currentSyncState"}],
                               captureManager[m], state, initOut)
                  IN  /\ client' = [client EXCEPT ![m] = r.cl]
                      /\ captureManager' = [captureManager EXCEPT ![m] = r.cm]
                      /\ lastCall' = [lastCall EXCEPT ![m] =
                             [op |-> "start_master", syncState |-> Master,
                              syncOffset |-> 0, res |-> r.res]]
                      /\ startMasterCalls' = startMasterCalls + 1
                      /\ Faulty(<<initOut>>) <= faults
                      /\ faults' = faults - Faulty(<<initOut>>)
       ELSE UNCHANGED <<client, captureManager, lastCall, startMasterCalls, faults>>
    /\ confPc' = [confPc EXCEPT ![c] = "return"]
    /\ UNCHANGED <<allDevicesInitialized, liveScanClients, uiPc, uiQueue,
                   btSyncEnable, rounds, running, deviceSerial, transferVars, otherVars, ackState,
                   workerVars>>

\* CameraServer.ConfirmSyncDisabled, the check made before the lock is taken
ConfirmSyncDisabled_Check(c) ==
    /\ confPc[c] = "confirm_disabled"
    /\ confPc' = [confPc EXCEPT ![c] =
           IF waitForSubordinateStart THEN "return" ELSE "confirm_disabled_locked"]
    /\ UNCHANGED <<serverVars, pipeVars, transferVars, otherVars, ackState,
                   workerVars>>

\* CameraServer.ConfirmSyncDisabled, the scan under clientLock and the
\* assignment that follows it
ConfirmSyncDisabled_Locked(c) ==
    /\ confPc[c] = "confirm_disabled_locked"
    /\ uiPc = "idle"
    /\ allDevicesInitialized' =
           IF \A k \in Cams : liveScanClients[k].CurrentSyncState = Standalone
           THEN TRUE ELSE allDevicesInitialized
    /\ confPc' = [confPc EXCEPT ![c] = "return"]
    /\ UNCHANGED <<waitForSubordinateStart, liveScanClients, uiPc, uiQueue,
                   btSyncEnable, rounds, startMasterCalls, pipeVars, transferVars, otherVars, ackState,
                   workerVars>>

\* the callback has returned: ConfirmSyncState clears the request
ConfirmSyncState_Return(c) ==
    /\ confPc[c] = "return"
    /\ client' = [client EXCEPT ![c].isConfirmSyncStateRequested = FALSE,
                                ![c].noValue = @ \ {"isConfirmSyncStateRequested"}]
    /\ confPc' = [confPc EXCEPT ![c] = "idle"]
    /\ UNCHANGED <<serverVars, captureManager, lastCall, running, deviceSerial, transferVars, otherVars,
                   faults, ackState,
                   workerVars>>

\* ConfirmMasterRestart calls the callback: the lambda of
\* SetConfirmMasterRestartCallback, OnConfirmMasterRestart,
\* MasterSuccessfullyRestarted
ConfirmMasterRestart(c) ==
    /\ running[c]
    /\ confPc[c] = "idle"
    /\ client[c].isConfirmRestartAsMasterRequested
    /\ liveScanClients' = [liveScanClients EXCEPT ![c].IsStarted = TRUE]
    /\ allDevicesInitialized' = TRUE
    /\ confPc' = [confPc EXCEPT ![c] = "restart_return"]
    /\ UNCHANGED <<waitForSubordinateStart, uiPc, uiQueue, btSyncEnable, rounds,
                   startMasterCalls, pipeVars, transferVars, otherVars, ackState,
                   workerVars>>

\* the callback has returned: ConfirmMasterRestart clears the request
ConfirmMasterRestart_Return(c) ==
    /\ confPc[c] = "restart_return"
    /\ client' = [client EXCEPT ![c].isConfirmRestartAsMasterRequested = FALSE]
    /\ confPc' = [confPc EXCEPT ![c] = "idle"]
    /\ UNCHANGED <<serverVars, captureManager, lastCall, running, deviceSerial, transferVars, otherVars,
                   faults, ackState,
                   workerVars>>

SendClientConfirmations(c) ==
    \/ PollSyncStateFlag(c)
    \/ ConfirmSyncState(c)
    \/ OnConfirmSyncState_SetState(c)
    \/ OnConfirmSyncState_SetStarted(c)
    \/ StartMaster_Check(c)
    \/ StartMaster_Locked(c)
    \/ ConfirmSyncDisabled_Check(c)
    \/ ConfirmSyncDisabled_Locked(c)
    \/ ConfirmSyncState_Return(c)
    \/ ConfirmMasterRestart(c)
    \/ ConfirmMasterRestart_Return(c)

(***************************************************************************)
(* The sync protocol: server, UI thread, every pipeline's control handlers *)
(* and confirmations thread.                                               *)
(***************************************************************************)
\* the devices of the sync runs: the first one has the greatest serial
\* number, the last one has none when there are more than two
SyncSerials ==
    {[c \in Cams |-> IF c = 0 THEN <<2>>
                     ELSE IF c = NumCams - 1 /\ NumCams > 2 /\ noSerial THEN <<>>
                     ELSE <<1>>] : noSerial \in BOOLEAN}

InitSync ==
    /\ InitTransfer
    /\ InitOther
    /\ allDevicesInitialized = TRUE
    /\ waitForSubordinateStart = FALSE
    /\ liveScanClients = [c \in Cams |-> NewCameraClient]
    /\ uiPc = "idle"
    /\ uiQueue = <<>>
    /\ btSyncEnable = TRUE
    /\ rounds = 0
    /\ startMasterCalls = 0
    /\ client = [c \in Cams |-> NewLiveScanClient]
    /\ captureManager = [c \in Cams |-> NewCaptureManager]
    /\ lastCall = [c \in Cams |-> NoCall]
    /\ running = [c \in Cams |-> FALSE]
    /\ deviceSerial \in SyncSerials
    /\ faults = MaxFaults
    /\ confPc = [c \in Cams |-> "idle"]
    /\ ackState = [c \in Cams |-> Standalone]
    /\ workerPc = [c \in Cams |-> "loop"]
    /\ frameset = [c \in Cams |-> NoFrame]
    /\ frameCount = [c \in Cams |-> 0]

NextSync ==
    \/ EnableSyncBegin
    \/ DisableSyncBegin
    \/ OpenSettingsForm
    \/ Dispatch
    \/ \E c \in Cams : Run(c)
    \/ \E c \in Cams : SendClientConfirmations(c)

SpecSync == InitSync /\ [][NextSync]_vars

(***************************************************************************)
(* Claims about the sync protocol                                          *)
(***************************************************************************)
\* the role camera c was given in the round that called it last
AssignedRole(c) ==
    IF lastCall[c].op = "enable_sync" THEN lastCall[c].syncState
    ELSE IF lastCall[c].op = "disable_sync" THEN Standalone
    ELSE IF lastCall[c].op = "start_master" THEN Master
    ELSE Unknown

\* camera c was called by enable_sync / disable_sync and the server has
\* recorded no SyncState ACK since, nor is one being delivered
NoSyncStateAck(c) ==
    /\ lastCall[c].op \in {"enable_sync", "disable_sync"}
    /\ liveScanClients[c].CurrentSyncState = Unknown
    /\ confPc[c] \in {"idle", "restart_return"}

\* camera c was called by start_master and the server has not recorded
\* the restart ACK
NoRestartAck(c) ==
    /\ lastCall[c].op = "start_master"
    /\ ~liveScanClients[c].IsStarted
    /\ confPc[c] = "idle"

\* the UI thread is in no round and no confirmation is raised or in delivery
Quiescent ==
    /\ uiPc = "idle"
    /\ \A c \in Cams :
         /\ running[c]
         /\ confPc[c] = "idle"
         /\ client[c].noValue = {}
         /\ ~client[c].isConfirmSyncStateRequested
         /\ ~client[c].isConfirmRestartAsMasterRequested

\* no SDK call has failed and no flag has delivered a value it was never given
NoAdverseOutcome == faults = MaxFaults

\* C1: start_master() is dispatched to the Master only after every camera
\* that was assigned the Subordinate role in the round has ACKed its
\* SyncState: at a dispatch of start_master no Subordinate is without ACK
\* (stated for the runs in which nothing fails).
C1_StartMasterAfterAllSubordinateAcks ==
    [][startMasterCalls' > startMasterCalls /\ NoAdverseOutcome' =>
         ~ \E c \in Cams : AssignedRole(c) = Subordinate /\ NoSyncStateAck(c)]_vars

\* the last round was an enable-sync round, every camera has ACKed the role
\* it was given, and nothing is left to run
EnableRoundSettled ==
    /\ Quiescent
    /\ \E c \in Cams : AssignedRole(c) = Master
    /\ \E c \in Cams : AssignedRole(c) = Subordinate
    /\ \A c \in Cams :
         /\ lastCall[c].op \in {"enable_sync", "start_master"}
         /\ liveScanClients[c].CurrentSyncState = AssignedRole(c)

\* C2: in one enable-sync round start_master() is dispatched exactly once:
\* never twice, and once every camera has ACKed, not zero times (stated for
\* the runs in which nothing fails).
C2_StartMasterExactlyOnce ==
    NoAdverseOutcome =>
        /\ startMasterCalls <= 1
        /\ EnableRoundSettled => startMasterCalls = 1

\* C3: while any pipeline is transitioning role (called, ACK not received)
\* allDevicesInitialized is false (stated for the runs in which nothing
\* fails).
C3_FlagFalseWhileTransitioning ==
    allDevicesInitialized /\ NoAdverseOutcome =>
        \A c \in Cams : ~NoSyncStateAck(c) /\ ~NoRestartAck(c)

\* the last round was a disable-sync round and nothing is left to run
DisableRoundSettled ==
    /\ Quiescent
    /\ \A c \in Cams : lastCall[c].op = "disable_sync"

\* C6: disable-sync resets all pipelines to Standalone: when the round has
\* run to its end, every pipeline has its camera open as Standalone and the
\* server records every camera as Standalone (stated for the runs in which
\* nothing fails).
C6_DisableResetsAllToStandalone ==
    DisableRoundSettled /\ NoAdverseOutcome =>
        \A c \in Cams :
            /\ liveScanClients[c].CurrentSyncState = Standalone
            /\ captureManager[c].isInitialized
            /\ captureManager[c].syncMode = "STANDALONE"

\* C7: a round of enable-sync or disable-sync starts only when
\* allDevicesInitialized is true, so it never starts while a camera of an
\* earlier round is still without its ACK (stated for the runs in which
\* nothing fails).
C7_RoundsNeverOverlap ==
    [][rounds' > rounds /\ NoAdverseOutcome =>
         /\ allDevicesInitialized
         /\ \A c \in Cams : ~NoSyncStateAck(c) /\ ~NoRestartAck(c)]_vars

(***************************************************************************)
(* Role assignment: the devices have any serial numbers, the pipelines     *)
(* start and the UI thread runs EnableSync.                                *)
(***************************************************************************)
InitAssign ==
    /\ InitTransfer
    /\ InitOther
    /\ allDevicesInitialized = TRUE
    /\ waitForSubordinateStart = FALSE
    /\ liveScanClients = [c \in Cams |-> NewCameraClient]
    /\ uiPc = "idle"
    /\ uiQueue = <<>>
    /\ btSyncEnable = TRUE
    /\ rounds = 0
    /\ startMasterCalls = 0
    /\ client = [c \in Cams |-> NewLiveScanClient]
    /\ captureManager = [c \in Cams |-> NewCaptureManager]
    /\ lastCall = [c \in Cams |-> NoCall]
    /\ running = [c \in Cams |-> FALSE]
    /\ deviceSerial \in [Cams -> Serials]
    /\ faults = MaxFaults
    /\ confPc = [c \in Cams |-> "idle"]
    /\ ackState = [c \in Cams |-> Standalone]
    /\ workerPc = [c \in Cams |-> "loop"]
    /\ frameset = [c \in Cams |-> NoFrame]
    /\ frameCount = [c \in Cams |-> 0]

NextAssign ==
    \/ EnableSyncBegin
    \/ Dispatch
    \/ \E c \in Cams : Run(c)

SpecAssign == InitAssign /\ [][NextAssign]_vars

\* the calls, in order, give the roles by serial number
RolesBySerial(clients, calls) ==
    LET withSerial == {c \in Cams : clients[c].SerialNumber # <<>>}
        ix == 1 .. Len(calls)
        subs == {i \in ix : calls[i].syncState = Subordinate}
        serialOf(i) == clients[calls[i].cam].SerialNumber
    IN  /\ \A c \in Cams : Cardinality({i \in ix : calls[i].cam = c}) = 1
        /\ \A i \in ix :
             /\ calls[i].op = "enable_sync"
             /\ calls[i].cam \notin withSerial =>
                    calls[i].syncState = Standalone
             /\ calls[i].cam \in withSerial =>
                    calls[i].syncState \in {Master, Subordinate}
             /\ calls[i].syncState = Master =>
                    \A c \in withSerial :
                        CompareOrdinal(serialOf(i), clients[c].SerialNumber) <= 0
        /\ withSerial # {} =>
             /\ Cardinality({i \in ix : calls[i].syncState = Master}) = 1
             /\ Cardinality(subs) = Cardinality(withSerial) - 1
             /\ {calls[i].syncOffset : i \in subs} = 1 .. (Cardinality(withSerial) - 1)
        /\ \A i, j \in subs :
             calls[i].syncOffset < calls[j].syncOffset =>
                 CompareOrdinal(serialOf(i), serialOf(j)) <= 0

\* C5: when sync is enabled the cameras are ordered by serial number: the
\* first is called enable_sync(Master), the i-th of the others
\* enable_sync(Subordinate) with offset i, and every camera with an empty
\* serial number is called enable_sync(Standalone).
C5_RolesBySerialOrder ==
    [][rounds' > rounds /\ btSyncEnable =>
         RolesBySerial(liveScanClients, uiQueue')]_vars

(***************************************************************************)
(* One pipeline: the worker thread with the control calls the pipeline     *)
(* receives from the server in any order (SpecPipeline), and the worker    *)
(* thread with the server's latest-frame requests (SpecFrame).             *)
(***************************************************************************)
\* the pipeline that is looked at
P == 0

\* LiveScanClient::UpdateFrame up to the call of waitForFrames: the test of
\* isInitialized, then the test AcquireFrame makes
UpdateFrame(c) ==
    /\ running[c]
    /\ workerPc[c] = "loop"
    /\ captureManager[c].isInitialized
    /\ AcquireFrame_Ready(captureManager[c])
    /\ workerPc' = [workerPc EXCEPT ![c] = "wait"]
    /\ UNCHANGED <<serverVars, pipeVars, transferVars, otherVars, confVars, frameset, frameCount>>

\* AcquireFrame, pipeline->waitForFrames: a frame, or none.  A pipeline that
\* Close has released meanwhile delivers nothing or ends the thread.
WaitForFrames(c) ==
    /\ workerPc[c] = "wait"
    /\ \/ /\ captureManager[c].pipeline = "streaming"
          /\ frameCount[c] < MaxFrames
          /\ \E size \in 0 .. MaxPoints :
               frameset' = [frameset EXCEPT ![c] =
                                [frame |-> frameCount[c] + 1, size |-> size]]
          /\ frameCount' = [frameCount EXCEPT ![c] = @ + 1]
          /\ workerPc' = [workerPc EXCEPT ![c] = "process"]
       \/ /\ workerPc' = [workerPc EXCEPT ![c] = "loop"]
          /\ UNCHANGED <<frameset, frameCount>>
       \/ /\ captureManager[c].pipeline = "null"
          /\ workerPc' = [workerPc EXCEPT ![c] = "crashed"]
          /\ UNCHANGED <<frameset, frameCount>>
    /\ UNCHANGED <<serverVars, pipeVars, transferVars, otherVars, confVars>>

\* LiveScanClient::ProcessFrame, line 536: lastFrameVertices = ...
ProcessFrame_Vertices(c) ==
    /\ workerPc[c] = "process"
    /\ client' = [client EXCEPT ![c].lastFrameVertices = frameset[c]]
    /\ workerPc' = [workerPc EXCEPT ![c] = "process_colors"]
    /\ UNCHANGED <<serverVars, captureManager, lastCall, running, deviceSerial, transferVars, otherVars,
                   faults, confVars, frameset, frameCount>>

\* LiveScanClient::ProcessFrame, line 537: lastFrameColors = ...
ProcessFrame_Colors(c) ==
    /\ workerPc[c] = "process_colors"
    /\ client' = [client EXCEPT ![c].lastFrameColors = frameset[c]]
    /\ workerPc' = [workerPc EXCEPT ![c] = "loop"]
    /\ UNCHANGED <<serverVars, captureManager, lastCall, running, deviceSerial, transferVars, otherVars,
                   faults, confVars, frameset, frameCount>>

\* LiveScanClient::SendLatestFrame, the count it passes to the callback
SendCount(numVertices, numColors) ==
    IF numVertices # numColors /\ numVertices < numColors
    THEN numColors
    ELSE numVertices

\* CameraClient.RequestLatestFrame: LiveScanClient::SendLatestFrame runs on
\* the calling thread and calls the lambda of SetSendLatestFrameCallback,
\* which reads `count` vertices and `count` colours
RequestLatestFrame(c) ==
    /\ uiPc = "idle"
    /\ LET vertices == client[c].lastFrameVertices
           colors == client[c].lastFrameColors
           count == SendCount(vertices.size, colors.size)
       IN  liveScanClients' = [liveScanClients EXCEPT
               ![c].FrameVertices = [frame |-> vertices.frame, size |-> count],
               ![c].FrameColors = [frame |-> colors.frame, size |-> count],
               ![c].readPastEnd = (count > vertices.size \/ count > colors.size),
               ![c].IsLatestFrameReceived = TRUE]
    /\ UNCHANGED <<allDevicesInitialized, waitForSubordinateStart, uiPc, uiQueue,
                   btSyncEnable, rounds, startMasterCalls, pipeVars, transferVars, otherVars, confVars,
                   workerVars>>

\* CameraClient.EnableSync called with any role, and with an offset as
\* CameraServer.EnableSync gives it
EnableSync(c) ==
    /\ uiPc = "idle"
    /\ \E syncState \in ClientSyncStates :
         CameraClientCall(c, "enable_sync", syncState,
                          IF syncState = Subordinate THEN 1 ELSE 0)
    /\ UNCHANGED <<allDevicesInitialized, waitForSubordinateStart, uiPc, uiQueue,
                   btSyncEnable, rounds, startMasterCalls, running, deviceSerial, transferVars, otherVars,
                   confVars, workerVars>>

\* CameraClient.DisableSync
DisableSync(c) ==
    /\ uiPc = "idle"
    /\ CameraClientCall(c, "disable_sync", Standalone, 0)
    /\ UNCHANGED <<allDevicesInitialized, waitForSubordinateStart, uiPc, uiQueue,
                   btSyncEnable, rounds, startMasterCalls, running, deviceSerial, transferVars, otherVars,
                   confVars, workerVars>>

\* CameraClient.StartMaster: LiveScanClient::StartMaster on the calling thread
StartMaster(c) ==
    /\ uiPc = "idle"
    /\ \E initOut \in InitOutcomes,
          state \in ReadOf(client[c], "currentSyncState",
                           ClientSyncStates \cup {Unknown}) :
         LET r == ClientStartMaster(
                      [client[c] EXCEPT !.currentSyncState = state,
                                        !.noValue = @ \ {"currentSyncState"}],
                      captureManager[c], state, initOut)
         IN  /\ client' = [client EXCEPT ![c] = r.cl]
             /\ captureManager' = [captureManager EXCEPT ![c] = r.cm]
             /\ lastCall' = [lastCall EXCEPT ![c] =
                    [op |-> "start_master", syncState |-> Master,
                     syncOffset |-> 0, res |-> r.res]]
             /\ Faulty(<<initOut>>) <= faults
             /\ faults' = faults - Faulty(<<initOut>>)
    /\ UNCHANGED <<serverVars, running, deviceSerial, transferVars, otherVars, confVars, workerVars>>

\* the server and the pipelines after construction, one device per pipeline
InitCameras ==
    /\ allDevicesInitialized = TRUE
    /\ waitForSubordinateStart = FALSE
    /\ liveScanClients = [c \in Cams |-> NewCameraClient]
    /\ uiPc = "idle"
    /\ uiQueue = <<>>
    /\ btSyncEnable = TRUE
    /\ rounds = 0
    /\ startMasterCalls = 0
    /\ client = [c \in Cams |-> NewLiveScanClient]
    /\ captureManager = [c \in Cams |-> NewCaptureManager]
    /\ lastCall = [c \in Cams |-> NoCall]
    /\ running = [c \in Cams |-> FALSE]
    /\ deviceSerial = [c \in Cams |-> <<1>>]
    /\ faults = MaxFaults
    /\ confPc = [c \in Cams |-> "idle"]
    /\ ackState = [c \in Cams |-> Standalone]
    /\ workerPc = [c \in Cams |-> "loop"]
    /\ frameset = [c \in Cams |-> NoFrame]
    /\ frameCount = [c \in Cams |-> 0]

InitPipeline == InitTransfer /\ InitOther /\ InitCameras

NextPipeline ==
    \/ Run(P)
    \/ UpdateFrame(P)
    \/ WaitForFrames(P)
    \/ ProcessFrame_Vertices(P)
    \/ ProcessFrame_Colors(P)
    \/ EnableSync(P)
    \/ DisableSync(P)
    \/ StartMaster(P)

SpecPipeline == InitPipeline /\ [][NextPipeline]_vars

NextFrame ==
    \/ Run(P)
    \/ UpdateFrame(P)
    \/ WaitForFrames(P)
    \/ ProcessFrame_Vertices(P)
    \/ ProcessFrame_Colors(P)
    \/ RequestLatestFrame(P)

SpecFrame == InitPipeline /\ [][NextFrame]_vars

(***************************************************************************)
(* Claims about one pipeline                                               *)
(***************************************************************************)
\* the last control call pipeline c received is enable_sync(Master)
EnableMasterCalled(c) ==
    lastCall[c].op = "enable_sync" /\ lastCall[c].syncState = Master

\* ... and the handler ran to its end
MasterWaiting(c) == EnableMasterCalled(c) /\ lastCall[c].res

CameraClosed(c) ==
    ~captureManager[c].isInitialized /\ captureManager[c].pipeline = "null"

\* a control call reaches pipeline c in this step
ControlCall(c) == lastCall'[c] # lastCall[c]

\* C4, for a pipeline whose Run has opened the camera and whose camera the
\* SDK closes without error: enable_sync(Master) closes the camera and
\* raises the SyncState ACK, and until the next control call (start_master)
\* the camera stays closed and the worker acquires no frame.
C4_OpenMasterClosedUntilStartMaster ==
    /\ [][/\ ControlCall(P)
          /\ EnableMasterCalled(P)'
          /\ running[P]
          /\ captureManager[P].isInitialized
          /\ faults' = faults
          => /\ MasterWaiting(P)'
             /\ CameraClosed(P)'
             /\ client'[P].isConfirmSyncStateRequested]_vars
    /\ [][/\ MasterWaiting(P)
          /\ running[P]
          /\ CameraClosed(P)
          /\ ~ControlCall(P)
          => CameraClosed(P)' /\ frameCount'[P] = frameCount[P]]_vars

\* the Master pipeline has streamed frames, has closed its camera on
\* enable_sync(Master), has raised the ACK and its worker is idling
C4_Witness ==
    /\ MasterWaiting(P)
    /\ frameCount[P] > 0
    /\ client[P].isConfirmSyncStateRequested
    /\ CameraClosed(P)
    /\ running[P]
    /\ workerPc[P] = "loop"

\* C8: every (vertices, colours) pair handed to the latest-frame callback
\* is the output of one finished ProcessFrame step: both come from the
\* same frame.
C8_PublishedPairFromOneFrame ==
    liveScanClients[P].IsLatestFrameReceived =>
        liveScanClients[P].FrameVertices.frame = liveScanClients[P].FrameColors.frame

\* C9: the count passed to the latest-frame callback is the smaller of the
\* vertex count and the colour count, so the callback never reads past the
\* end of either buffer.
C9_CountIsSmallerOfTheTwo ==
    liveScanClients[P].IsLatestFrameReceived => ~liveScanClients[P].readPastEnd

(***************************************************************************)
(* The point cloud channel: TransferServer, PointCloudTransferSocket and   *)
(* the viewers.  Positions are in millimetres; a point of the model is its *)
(* x coordinate, its y and z are at the centre of the range.               *)
(***************************************************************************)
RangeMm == 300
HalfRangeMm == 150
MaxScale == 850
ByteMax == 255
xRangeCenter == 0
yRangeCenter == 0
zRangeCenter == HalfRangeMm

\* x coordinates a camera can deliver: one out of the range, two that the
\* scale maps to one byte, one apart
Coords == {-200, 3, 4}
Clouds == UNION {[1 .. n -> Coords] : n \in 0 .. MaxCloud}

\* the request bytes a client of the port can write: 0, and one that is not
RequestBytes == {0, 1}

Min(a, b) == IF a < b THEN a ELSE b
Max(a, b) == IF a > b THEN a ELSE b
Abs(a) == IF a < 0 THEN -a ELSE a

\* PointCloudTransferSocket.DetermineScale: 6700 - 500 ln(n) is above
\* MaxScale for every cloud of fewer than 120,000 points, and the clamp
\* returns MaxScale for all of them
DetermineScale(vertexCount) == MaxScale

\* PointCloudTransferSocket.EncodeFloatToByte; scale is per metre
EncodeFloatToByte(value, rangeCenter, scale) ==
    Min(ByteMax, Max(((value + HalfRangeMm - rangeCenter) * scale) \div 1000, 0))

OutOfRange(x) == Abs(x - xRangeCenter) > HalfRangeMm

EncodePoint(x, scale) ==
    <<EncodeFloatToByte(x, xRangeCenter, scale),
      EncodeFloatToByte(yRangeCenter, yRangeCenter, scale),
      EncodeFloatToByte(zRangeCenter, zRangeCenter, scale)>>

\* the loop of SendPointCloud over the vertices: points out of the range are
\* dropped, and so is a point whose bytes another point already has
RECURSIVE FilterVertices(_, _, _)
FilterVertices(vertices, scale, filtered) ==
    IF vertices = <<>> THEN filtered
    ELSE LET x == Head(vertices)
             point == EncodePoint(x, scale)
         IN  IF OutOfRange(x) \/ \E i \in DOMAIN filtered : filtered[i] = point
             THEN FilterVertices(Tail(vertices), scale, filtered)
             ELSE FilterVertices(Tail(vertices), scale, Append(filtered, point))

\* the four writes of SendPointCloud, in order: what is written and how
\* many bytes (for the count, its value)
FrameWrites(vertices) ==
    LET scale == DetermineScale(Len(vertices))
        numVerticesToSend == Len(FilterVertices(vertices, scale, <<>>))
    IN  <<[part |-> "scale", n |-> 2],
          [part |-> "count", n |-> numVerticesToSend],
          [part |-> "positions", n |-> 3 * numVerticesToSend],
          [part |-> "colors", n |-> 3 * numVerticesToSend]>>

\* SendPointCloud, line 49, with any byte taken as a request
WantsFrame_AnyByte(buffer) == TRUE

\* SendPointCloud, line 49: if (requestBuffer[0] == 0)
WantsFrame(buffer) == buffer[1] = 0

\* TransferSocketBase.Receive(1): a byte when socket.Available is not 0, an
\* empty buffer otherwise; on a connection that has failed socket.Available
\* can also throw
ReceiveOutcomes(v) ==
    (IF inbound[v] # <<>> THEN {"byte"} ELSE {"empty"})
    \cup (IF failed[v] THEN {"empty", "throws"} ELSE {})
    \cup (IF dropped[v] THEN {"throws"} ELSE {})

\* how many of the four writes succeed: all, or the k-th throws
WriteOutcomes(v) == IF failed[v] THEN {0} ELSE IF dropped[v] THEN 0 .. 3 ELSE 0 .. 4

\* ObjectControllerIO.ConnectPointCloudClient: ConnectAsync completes, and
\* the HoloLens receiver enters ReceivePointClouds
ConnectPointCloudClient(v) ==
    /\ viewerPc[v] = "none"
    /\ viewerPc' = [viewerPc EXCEPT ![v] = IF v = HoloLens THEN "request" ELSE "connected"]
    /\ UNCHANGED <<serverVars, pipeVars, confVars, workerVars, otherVars, recording, pointCloudClients,
                   senderPc, senderI, requestBuffer, inbound, sent,
                   outbound, failed, framesRead>>

\* TransferServer.ConnectPointCloudClients: AcceptTcpClient and the Add
ConnectPointCloudClients(v) ==
    /\ viewerPc[v] # "none"
    /\ ~accepted[v]
    /\ accepted' = [accepted EXCEPT ![v] = TRUE]
    /\ pointCloudClients' = Append(pointCloudClients, v)
    /\ UNCHANGED <<serverVars, pipeVars, confVars, workerVars, exceptHealth, senderSock, dropped,
                   recording, senderPc,
                   senderI, requestBuffer, inbound, sent, outbound, failed,
                   viewerPc, framesRead>>

\* sent and outbound are histories: they grow while they are recorded
Record(history, items) == IF recording THEN history \o items ELSE history

\* the bytes a viewer can still write: MaxRequests in all while the history
\* is recorded, and else as many as the connection holds unread
CanWrite(v) ==
    IF recording THEN Len(sent[v]) < MaxRequests ELSE Len(inbound[v]) < MaxRequests

\* ReceivePointClouds, line 351: the viewer writes its request, one byte 0
ReceivePointClouds_Request(v) ==
    /\ viewerPc[v] = "request"
    /\ ~failed[v]
    /\ CanWrite(v)
    /\ sent' = [sent EXCEPT ![v] = Record(@, <<0>>)]
    /\ inbound' = [inbound EXCEPT ![v] = Append(@, 0)]
    /\ viewerPc' = [viewerPc EXCEPT ![v] = "read"]
    /\ UNCHANGED <<serverVars, pipeVars, confVars, workerVars, otherVars, recording, pointCloudClients,
                   senderPc, senderI, requestBuffer, outbound, failed,
                   framesRead>>

\* the port accepts any TCP client, and a client other than the HoloLens
\* receiver can write any byte at any time
ClientWrite(v) ==
    /\ viewerPc[v] = "connected"
    /\ ~failed[v]
    /\ CanWrite(v)
    /\ \E b \in RequestBytes :
         /\ sent' = [sent EXCEPT ![v] = Record(@, <<b>>)]
         /\ inbound' = [inbound EXCEPT ![v] = Append(@, b)]
    /\ UNCHANGED <<serverVars, pipeVars, confVars, workerVars, otherVars, recording, pointCloudClients,
                   senderPc, senderI, requestBuffer, outbound, failed,
                   viewerPc, framesRead>>

\* the first of the four writes of the k-th frame in the stream
IsFrameAt(stream, i) ==
    /\ i + 3 <= Len(stream)
    /\ stream[i] = [part |-> "scale", n |-> 2]
    /\ stream[i + 1].part = "count"
    /\ stream[i + 2] = [part |-> "positions", n |-> 3 * stream[i + 1].n]
    /\ stream[i + 3] = [part |-> "colors", n |-> 3 * stream[i + 1].n]

CompleteFrames(stream) == Cardinality({i \in DOMAIN stream : IsFrameAt(stream, i)})

FramesBegun(stream) == Cardinality({i \in DOMAIN stream : stream[i].part = "scale"})

\* ReceivePointClouds, lines 354-384: the viewer reads scale, count,
\* positions and colours of the next frame
ReceivePointClouds_Read(v) ==
    /\ viewerPc[v] = "read"
    /\ CompleteFrames(outbound[v]) > framesRead[v]
    /\ framesRead' = [framesRead EXCEPT ![v] = @ + 1]
    /\ viewerPc' = [viewerPc EXCEPT ![v] = "request"]
    /\ UNCHANGED <<serverVars, pipeVars, confVars, workerVars, otherVars, recording, pointCloudClients,
                   senderPc, senderI, requestBuffer, inbound, sent,
                   outbound, failed>>

\* ReceivePointClouds, lines 386-397: the connection is lost, the viewer closes
ReceivePointClouds_Catch(v) ==
    /\ viewerPc[v] \in {"request", "read"}
    /\ failed[v]
    /\ viewerPc' = [viewerPc EXCEPT ![v] = "closed"]
    /\ UNCHANGED <<serverVars, pipeVars, confVars, workerVars, otherVars, recording, pointCloudClients,
                   senderPc, senderI, requestBuffer, inbound, sent,
                   outbound, failed, framesRead>>

\* SendPointCloudToAllClients: one more pass of the while loop, the for loop
\* starts at the first socket
SendPointCloudToAllClients ==
    /\ senderPc = "delay"
    /\ pointCloudClients # <<>>
    /\ senderI' = 1
    /\ senderPc' = "call"
    /\ UNCHANGED <<serverVars, pipeVars, confVars, workerVars, otherVars, recording, pointCloudClients,
                   requestBuffer, inbound, sent, outbound, failed,
                   viewerPc, framesRead>>

\* SendPointCloud, lines 45 and 119: Receive(1).  The first Receive of a call
\* follows the indexing pointCloudClients[i] of the for loop, which throws
\* when the list has shrunk below i; the later ones are on the socket of the
\* call.  An empty buffer ends the call and the for loop goes to the next
\* socket; an exception ends the task.
SendPointCloud_Receive ==
    /\ senderPc \in {"call", "loop"}
    /\ IF senderPc = "call" /\ senderI > Len(pointCloudClients)
       THEN /\ senderPc' = "faulted"
            /\ UNCHANGED <<requestBuffer, senderI, inbound, failed, senderSock>>
       ELSE LET v == IF senderPc = "call" THEN pointCloudClients[senderI] ELSE senderSock
            IN  /\ senderSock' = v
                /\ \E out \in ReceiveOutcomes(v) :
                     \/ /\ out = "byte"
                        /\ requestBuffer' = <<Head(inbound[v])>>
                        /\ inbound' = [inbound EXCEPT ![v] = Tail(@)]
                        /\ senderPc' = "handle"
                        /\ UNCHANGED <<senderI, failed>>
                     \/ /\ out = "empty"
                        /\ requestBuffer' = <<>>
                        /\ senderI' = IF senderI < Len(pointCloudClients) THEN senderI + 1 ELSE 1
                        /\ senderPc' = IF senderI < Len(pointCloudClients) THEN "call" ELSE "delay"
                        /\ UNCHANGED <<inbound, failed>>
                     \/ /\ out = "throws"
                        /\ senderPc' = "faulted"
                        /\ failed' = [failed EXCEPT ![v] = TRUE]
                        /\ UNCHANGED <<requestBuffer, senderI, inbound>>
    /\ UNCHANGED <<serverVars, pipeVars, confVars, workerVars, exceptHealth, accepted, dropped,
                   recording, pointCloudClients,
                   sent, outbound, viewerPc, framesRead>>

\* SendPointCloud, lines 49-116: a request byte 0 is answered with the four
\* writes of a frame built from the vertices the call was given (the merged
\* cloud TransferServer.Vertices holds at that time); a write that throws
\* ends them, and the exception is swallowed.  Any other byte is dropped.
SendPointCloud_Write ==
    /\ senderPc = "handle"
    /\ LET v == senderSock
       IN  IF WantsFrame(requestBuffer)
           THEN \E vertices \in Clouds, k \in WriteOutcomes(v) :
                  /\ outbound' = [outbound EXCEPT ![v] =
                                     Record(@, SubSeq(FrameWrites(vertices), 1, k))]
                  /\ failed' = [failed EXCEPT ![v] = @ \/ k < 4]
           ELSE UNCHANGED <<outbound, failed>>
    /\ senderPc' = "loop"
    /\ UNCHANGED <<serverVars, pipeVars, confVars, workerVars, otherVars, recording, pointCloudClients,
                   senderI, requestBuffer, inbound, sent, viewerPc,
                   framesRead>>

NextStream ==
    \/ \E v \in Viewers : ConnectPointCloudClient(v)
    \/ \E v \in Viewers : ConnectPointCloudClients(v)
    \/ ReceivePointClouds_Request(HoloLens)
    \/ ClientWrite(OtherClient)
    \/ ReceivePointClouds_Read(HoloLens)
    \/ ReceivePointClouds_Catch(HoloLens)
    \/ SendPointCloudToAllClients
    \/ SendPointCloud_Receive
    \/ SendPointCloud_Write

SpecStream == InitPipeline /\ [][NextStream]_vars

(***************************************************************************)
(* Claims about the point cloud channel                                    *)
(***************************************************************************)
\* the request bytes of viewer v that Receive has returned to the server
Consumed(v) == SubSeq(sent[v], 1, Len(sent[v]) - Len(inbound[v]))

ZeroRequests(bytes) == Cardinality({i \in DOMAIN bytes : bytes[i] = 0})

\* the server has read a request byte 0 of viewer v and has not yet written
\* the frame for it
Serving(v) ==
    /\ senderPc = "handle"
    /\ senderSock = v
    /\ requestBuffer = <<0>>

\* the requests of viewer v the server has answered
Answered(v) == ZeroRequests(Consumed(v)) - (IF Serving(v) THEN 1 ELSE 0)

\* the stream is a sequence of complete frames and nothing else
WellFramed(stream) ==
    /\ Len(stream) = 4 * CompleteFrames(stream)
    /\ \A i \in DOMAIN stream : i % 4 = 1 => IsFrameAt(stream, i)

\* C10: the point cloud channel is pull-paced.  The server never begins a
\* frame for a viewer without a request byte 0 read from that viewer, and
\* while the connection to a viewer is up the stream to it is made of whole
\* frames (scale, count, positions, colours), exactly one for each request
\* byte 0 read from that viewer; any other byte gets no frame.
C10_OneFramePerRequest ==
    \A v \in Viewers :
        /\ FramesBegun(outbound[v]) <= Answered(v)
        /\ ~failed[v] =>
              /\ WellFramed(outbound[v])
              /\ CompleteFrames(outbound[v]) = Answered(v)

\* the HoloLens receiver has asked twice and has read two whole frames, the
\* second with a point; the other client has written a byte 0 and a byte
\* that is not 0, the server has read both and has answered with one frame
C10_Witness ==
    /\ ~failed[HoloLens] /\ ~failed[OtherClient]
    /\ sent[HoloLens] = <<0, 0>>
    /\ framesRead[HoloLens] = 2
    /\ outbound[HoloLens][6].n = 1
    /\ inbound[OtherClient] = <<>>
    /\ Len(sent[OtherClient]) = 2
    /\ ZeroRequests(sent[OtherClient]) = 1
    /\ CompleteFrames(outbound[OtherClient]) = 1
    /\ senderPc = "delay"

(***************************************************************************)
(* The point cloud channel served for ever: the history is not recorded,   *)
(* the viewers write as long as they live, and the sender task, the        *)
(* listener task and the viewers are scheduled fairly.                     *)
(***************************************************************************)
InitServe ==
    /\ InitCameras
    /\ InitOther
    /\ pointCloudClients = <<>>
    /\ senderPc = "delay"
    /\ senderI = 1
    /\ requestBuffer = <<>>
    /\ inbound = [v \in Viewers |-> <<>>]
    /\ sent = [v \in Viewers |-> <<>>]
    /\ outbound = [v \in Viewers |-> <<>>]
    /\ failed = [v \in Viewers |-> FALSE]
    /\ viewerPc = [v \in Viewers |-> "none"]
    /\ framesRead = [v \in Viewers |-> 0]
    /\ recording = FALSE

\* the steps of the task SendPointCloudToAllClients
SenderStep ==
    \/ SendPointCloudToAllClients
    \/ SendPointCloud_Receive
    \/ SendPointCloud_Write

NextServe ==
    \/ \E v \in Viewers : ConnectPointCloudClient(v)
    \/ \E v \in Viewers : ConnectPointCloudClients(v)
    \/ ReceivePointClouds_Request(HoloLens)
    \/ ClientWrite(OtherClient)
    \/ ReceivePointClouds_Catch(HoloLens)
    \/ SenderStep

SpecServe ==
    /\ InitServe
    /\ [][NextServe]_vars
    /\ WF_vars(SenderStep)
    /\ \A v \in Viewers : WF_vars(ConnectPointCloudClients(v))

\* viewer v is in the list of the server
Listed(v) == \E i \in DOMAIN pointCloudClients : pointCloudClients[i] = v

\* C11: a connected viewer with a pending request is eventually served,
\* however fast the other viewers issue their requests (stated for the runs
\* in which no connection fails).
C11_PendingRequestServed ==
    \A v \in Viewers :
        (Listed(v) /\ inbound[v] # <<>>)
            ~> (inbound[v] = <<>> \/ \E w \in Viewers : failed[w])

(***************************************************************************)
(* The health timer of the point cloud server                              *)
(***************************************************************************)
\* TransferSocketBase.IsConnected: socket.Connected, the state of the
\* connection as of the last operation on the socket; it turns false when a
\* read or a write of the server has thrown
IsConnected(v) == ~failed[v]

RECURSIVE RemoveDisconnected(_)
\* the loop of the Elapsed handler: RemoveAt(i) for every socket that is not
\* connected
RemoveDisconnected(clients) ==
    IF clients = <<>> THEN <<>>
    ELSE IF IsConnected(Head(clients))
         THEN <<Head(clients)>> \o RemoveDisconnected(Tail(clients))
         ELSE RemoveDisconnected(Tail(clients))

\* StartPointCloudServer, lines 79-92: the Elapsed handler of
\* pointCloudConnectionTimer, under pointCloudClientLock
HealthTick ==
    /\ pointCloudClients' = RemoveDisconnected(pointCloudClients)
    /\ UNCHANGED <<serverVars, pipeVars, confVars, workerVars, otherVars, recording,
                   senderPc, senderI, requestBuffer, inbound, sent, outbound,
                   failed, viewerPc, framesRead>>

\* ObjectControllerIO.OnDestroy: the viewer closes its connection (or the
\* link is lost); what it has written stays readable at the server
Drop(v) ==
    /\ viewerPc[v] # "none"
    /\ ~dropped[v]
    /\ dropped' = [dropped EXCEPT ![v] = TRUE]
    /\ viewerPc' = [viewerPc EXCEPT ![v] = "closed"]
    /\ UNCHANGED <<serverVars, pipeVars, confVars, workerVars, exceptHealth, senderSock, accepted,
                   recording, pointCloudClients, senderPc, senderI, requestBuffer,
                   inbound, sent, outbound, failed, framesRead>>

NextHealth ==
    \/ \E v \in Viewers : ConnectPointCloudClient(v)
    \/ \E v \in Viewers : ConnectPointCloudClients(v)
    \/ ReceivePointClouds_Request(HoloLens)
    \/ ClientWrite(OtherClient)
    \/ ReceivePointClouds_Catch(HoloLens)
    \/ \E v \in Viewers : Drop(v)
    \/ SenderStep
    \/ HealthTick

\* the timer fires every CheckConnectionInterval, the sender and the listener
\* tasks keep running
SpecHealth ==
    /\ InitServe
    /\ [][NextHealth]_vars
    /\ WF_vars(SenderStep)
    /\ WF_vars(HealthTick)
    /\ \A v \in Viewers : WF_vars(ConnectPointCloudClients(v))

\* C12: while the server runs, every viewer whose connection has dropped is
\* removed from the viewer list by a subsequent health tick (stated for the
\* runs in which the sender task keeps running).
C12_DroppedViewerRemoved ==
    \A v \in Viewers :
        (dropped[v] /\ Listed(v)) ~> (~Listed(v) \/ senderPc = "faulted")

\* C25: the viewer list is only changed while the broadcaster is not between
\* the test i < Count of its for loop and the indexing pointCloudClients[i],
\* so the broadcaster never indexes a viewer that has been removed.
C25_NeverIndexesRemoved ==
    senderPc = "call" => senderI <= Len(pointCloudClients)

(***************************************************************************)
(* The document channel: CameraServer.OnReceiveDocument, TransferServer    *)
(* and the viewer's ReceiveDocuments                                       *)
(***************************************************************************)
\* the widths a document can have (its height is modelled with its width)
DocWidths == 1 .. 2

\* CameraServer.OnReceiveDocument, lines 1053-1061, under documentDataLock: a
\* pipeline has sent a document; an empty one is ignored, otherwise Data is
\* replaced.  The documents are numbered as they arrive.
OnReceiveDocument ==
    /\ receivePc = "idle"
    /\ received < MaxDocs
    /\ \E empty \in BOOLEAN :
         IF empty
         THEN UNCHANGED <<DocumentInfo, received, docWidths, receivePc>>
         ELSE \E width \in DocWidths :
                /\ received' = received + 1
                /\ docWidths' = Append(docWidths, width)
                /\ DocumentInfo' = [DocumentInfo EXCEPT !.Data = received + 1]
                /\ receivePc' = "size"
    /\ UNCHANGED <<documentClients, docPc, docI, docData, docBuffer, docInbound,
                   written, docViewerPc, docsRead, docWidth, docBegun>>
    /\ UNCHANGED <<serverVars, pipeVars, confVars, workerVars, transferVars, exceptDocs>>

\* OnReceiveDocument, lines 1062-1064: Score, Width and Height
OnReceiveDocument_SetSize ==
    /\ receivePc = "size"
    /\ DocumentInfo' = [DocumentInfo EXCEPT !.Width = docWidths[DocumentInfo.Data]]
    /\ receivePc' = "new"
    /\ UNCHANGED <<received, documentClients, docPc, docI, docData, docBuffer, docInbound,
                   written, docViewerPc, docsRead, docWidth, docWidths, docBegun>>
    /\ UNCHANGED <<serverVars, pipeVars, confVars, workerVars, transferVars, exceptDocs>>

\* OnReceiveDocument, line 1065: IsNew = true, and documentDataLock is left
OnReceiveDocument_SetNew ==
    /\ receivePc = "new"
    /\ DocumentInfo' = [DocumentInfo EXCEPT !.IsNew = TRUE]
    /\ receivePc' = "idle"
    /\ UNCHANGED <<received, documentClients, docPc, docI, docData, docBuffer, docInbound,
                   written, docViewerPc, docsRead, docWidth, docWidths, docBegun>>
    /\ UNCHANGED <<serverVars, pipeVars, confVars, workerVars, transferVars, exceptDocs>>

\* ObjectControllerIO.ConnectDocumentClient: ConnectAsync completes and the
\* viewer enters ReceiveDocuments
ConnectDocumentClient(v) ==
    /\ docViewerPc[v] = "none"
    /\ docViewerPc' = [docViewerPc EXCEPT ![v] = "request"]
    /\ UNCHANGED <<DocumentInfo, received, documentClients, docPc, docI, docData,
                   docBuffer, docInbound, written, docsRead>>
    /\ UNCHANGED <<serverVars, pipeVars, confVars, workerVars, transferVars, exceptDoc>>

\* TransferServer.ConnectDocumentClients: AcceptTcpClient and the Add
ConnectDocumentClients(v) ==
    /\ docViewerPc[v] # "none"
    /\ \A i \in DOMAIN documentClients : documentClients[i] # v
    /\ documentClients' = Append(documentClients, v)
    /\ UNCHANGED <<DocumentInfo, received, docPc, docI, docData, docBuffer,
                   docInbound, written, docViewerPc, docsRead>>
    /\ UNCHANGED <<serverVars, pipeVars, confVars, workerVars, transferVars, exceptDoc>>

\* ReceiveDocuments, line 408: the viewer writes its request, one byte 0
ReceiveDocuments_Request(v) ==
    /\ docViewerPc[v] = "request"
    /\ docsRead[v] < MaxRequests
    /\ docInbound' = [docInbound EXCEPT ![v] = Append(@, 0)]
    /\ docViewerPc' = [docViewerPc EXCEPT ![v] = "read"]
    /\ UNCHANGED <<DocumentInfo, received, documentClients, docPc, docI, docData,
                   docBuffer, written, docsRead>>
    /\ UNCHANGED <<serverVars, pipeVars, confVars, workerVars, transferVars, exceptDoc>>

\* ReceiveDocuments, lines 411-429: the viewer reads width, height, size and
\* data of the next document, and loops
ReceiveDocuments_Read(v) ==
    /\ docViewerPc[v] = "read"
    /\ Len(written[v]) > docsRead[v]
    /\ docsRead' = [docsRead EXCEPT ![v] = @ + 1]
    /\ docViewerPc' = [docViewerPc EXCEPT ![v] = "request"]
    /\ UNCHANGED <<DocumentInfo, received, documentClients, docPc, docI, docData,
                   docBuffer, docInbound, written>>
    /\ UNCHANGED <<serverVars, pipeVars, confVars, workerVars, transferVars, exceptDoc>>

\* the for loop of SendDocumentToAllClients goes to socket i, reading the
\* arguments of the call from DocumentInfo, or leaves the lock when there is
\* none
DocGoto(i) ==
    IF i <= Len(documentClients)
    THEN /\ docI' = i
         /\ docPc' = "call"
         /\ docData' = DocumentInfo.Data
         /\ docWidth' = DocumentInfo.Width
    ELSE /\ docI' = 1
         /\ docPc' = "reset"
         /\ UNCHANGED <<docData, docWidth>>

\* SendDocumentToAllClients, lines 285-292: one pass of the while loop; the
\* broadcast begins only if DocumentInfo.IsNew
SendDocumentToAllClients ==
    /\ docPc = "delay"
    /\ DocumentInfo.IsNew
    /\ DocGoto(1)
    /\ docBegun' = DocumentInfo.Data
    /\ UNCHANGED <<DocumentInfo, received, documentClients, docBuffer, docInbound,
                   written, docViewerPc, docsRead>>
    /\ UNCHANGED <<docWidths, receivePc>>
    /\ UNCHANGED <<serverVars, pipeVars, confVars, workerVars, transferVars, exceptDocs>>

\* SendDocument, lines 35 and 72: Receive(1); an empty buffer ends the call
SendDocument_Receive ==
    /\ docPc \in {"call", "loop"}
    /\ LET v == documentClients[docI]
       IN  IF docInbound[v] # <<>>
           THEN /\ docBuffer' = <<Head(docInbound[v])>>
                /\ docInbound' = [docInbound EXCEPT ![v] = Tail(@)]
                /\ docPc' = "handle"
                /\ UNCHANGED <<docI, docData, docWidth>>
           ELSE /\ docBuffer' = <<>>
                /\ DocGoto(docI + 1)
                /\ UNCHANGED docInbound
    /\ UNCHANGED <<DocumentInfo, received, documentClients, written, docViewerPc,
                   docsRead>>
    /\ UNCHANGED <<docWidths, receivePc, docBegun>>
    /\ UNCHANGED <<serverVars, pipeVars, confVars, workerVars, transferVars, exceptDocs>>

\* a request byte 0 asks for the document
WantsDocument(buffer) == buffer[1] = 0

\* the number of bytes of document d: three for each of its pixels
DataLength(d) == docWidths[d] * docWidths[d] * 3

\* DocumentTransferSocket.EncodeToJpeg, lines 78-82: no result (0) unless the
\* data has three bytes for each pixel of the width and height given
EncodeToJpeg(rawBgr, width, height) ==
    IF DataLength(rawBgr) # width * height * 3 \/ width <= 0 \/ height <= 0
    THEN 0
    ELSE rawBgr

\* SendDocument, lines 39-69: a request byte 0 is answered with the document
\* the call was given; with no data, no size or no encoding the call
\* returns and nothing is written.  Otherwise the loop goes on.
SendDocument_Write ==
    /\ docPc = "handle"
    /\ LET v == documentClients[docI]
       IN  IF WantsDocument(docBuffer)
           THEN IF \/ docData = 0
                   \/ docWidth = 0
                   \/ EncodeToJpeg(docData, docWidth, docWidth) = 0
                THEN /\ DocGoto(docI + 1)
                     /\ UNCHANGED written
                ELSE /\ written' = [written EXCEPT ![v] = Append(@, docData)]
                     /\ docPc' = "loop"
                     /\ UNCHANGED <<docI, docData, docWidth>>
           ELSE /\ docPc' = "loop"
                /\ UNCHANGED <<written, docI, docData, docWidth>>
    /\ UNCHANGED <<DocumentInfo, received, documentClients, docBuffer, docInbound,
                   docViewerPc, docsRead>>
    /\ UNCHANGED <<docWidths, receivePc, docBegun>>
    /\ UNCHANGED <<serverVars, pipeVars, confVars, workerVars, transferVars, exceptDocs>>

\* SendDocumentToAllClients, line 296, after the lock is left
SendDocumentToAllClients_Reset ==
    /\ docPc = "reset"
    /\ DocumentInfo' = [DocumentInfo EXCEPT !.IsNew = FALSE]
    /\ docPc' = "delay"
    /\ UNCHANGED <<received, documentClients, docI, docData, docBuffer, docInbound,
                   written, docViewerPc, docsRead>>
    /\ UNCHANGED <<serverVars, pipeVars, confVars, workerVars, transferVars, exceptDoc>>

NextDocument ==
    \/ OnReceiveDocument
    \/ OnReceiveDocument_SetSize
    \/ OnReceiveDocument_SetNew
    \/ \E v \in Viewers : ConnectDocumentClient(v)
    \/ \E v \in Viewers : ConnectDocumentClients(v)
    \/ \E v \in Viewers : ReceiveDocuments_Request(v)
    \/ \E v \in Viewers : ReceiveDocuments_Read(v)
    \/ SendDocumentToAllClients
    \/ SendDocument_Receive
    \/ SendDocument_Write
    \/ SendDocumentToAllClients_Reset

SpecDocument == InitPipeline /\ [][NextDocument]_vars

\* document d has been written to viewer v this many times
TimesWritten(v, d) == Cardinality({i \in DOMAIN written[v] : written[v][i] = d})

\* the requests viewer v has written, and those the server has consumed
DocRequested(v) == docsRead[v] + (IF docViewerPc[v] = "read" THEN 1 ELSE 0)

DocConsumed(v) == DocRequested(v) - Len(docInbound[v])

\* the server is handling a request of viewer v it has just consumed
Handling(v) ==
    /\ docPc = "handle"
    /\ documentClients[docI] = v

\* C28: every request byte 0 the server has consumed from a viewer has been
\* answered with a document, but for the one it is handling.
C28_ConsumedRequestAnswered ==
    \A v \in Viewers :
        DocConsumed(v) <= Len(written[v]) + (IF Handling(v) THEN 1 ELSE 0)

\* C29: a document that arrived while the broadcaster was in a broadcast is
\* still marked new when that broadcast is over: whenever the broadcaster
\* waits and DocumentInfo is not new, the document in it is one a broadcast
\* has begun with.
C29_ArrivalKeptNew ==
    (docPc = "delay" /\ receivePc = "idle" /\ ~DocumentInfo.IsNew)
        => docBegun = DocumentInfo.Data

\* C13: each document received from a pipeline is written to a given viewer
\* at most once.
C13_DocumentWrittenOnce ==
    \A v \in Viewers : \A d \in 1 .. MaxDocs : TimesWritten(v, d) <= 1

(***************************************************************************)
(* LiveScanClient::ProcessDocument: which document candidates are sent on  *)
(***************************************************************************)
DocumentSendTimeout == 30000
ByteRange == 255

\* the steps of the clock between two candidates, in milliseconds
Delays == {1000, DocumentSendTimeout, DocumentSendTimeout + 1000}

\* cv::absdiff, cvtColor(BGR2GRAY) and cv::mean of two uniform images: the
\* absolute difference of their levels, between 0 and 255
MeanDiff(new, last) == Abs(new - last)

\* diff > DocumentDiffThreshold, for diff = meanDiff / 255.0 and the
\* threshold 0.50
OverThreshold(meanDiff) == 2 * meanDiff > ByteRange

\* the steady clock at or over the timeout after time last
TimedOut(now, last) == now - last >= DocumentSendTimeout

\* the values a read of lastDocumentSendTime can give: it is not assigned
\* before the second publish
SendTimeRead ==
    IF "lastDocumentSendTime" \in unassigned
    THEN {0, MaxCandidates * (DocumentSendTimeout + 1000)}
    ELSE {lastDocumentSendTime}

\* the values a read of isSendDocumentRequested can give
RequestRead ==
    IF "isSendDocumentRequested" \in unassigned THEN BOOLEAN ELSE {isSendDocumentRequested}

\* the detection callback of OrbbecCaptureManager stores a new result and
\* UpdateFrame calls ProcessDocument for it, some time after the last one
ProcessDocument ==
    /\ candidates < MaxCandidates
    /\ candidates' = candidates + 1
    /\ \E d \in Levels \cup {EmptyMat}, sc \in Scores, dt \in Delays, last \in SendTimeRead :
         /\ newDocument' = [data |-> d, score |-> sc]
         /\ nowMs' = nowMs + dt
         /\ IF d = EmptyMat
            THEN UNCHANGED <<lastDocumentData, lastDocumentScore, lastDocumentSendTime,
                             unassigned, isSendDocumentRequested, published>>
            ELSE IF lastDocumentData = EmptyMat
            THEN /\ lastDocumentData' = d
                 /\ lastDocumentScore' = sc
                 /\ isSendDocumentRequested' = TRUE
                 /\ published' = Append(published, [data |-> d, score |-> sc, time |-> nowMs'])
                 /\ unassigned' = unassigned \ {"lastDocumentScore", "isSendDocumentRequested"}
                 /\ UNCHANGED lastDocumentSendTime
            ELSE /\ lastDocumentData' = d
                 /\ IF \/ TimedOut(nowMs', last)
                       \/ OverThreshold(MeanDiff(d, lastDocumentData))
                       \/ sc > lastDocumentScore
                    THEN /\ lastDocumentScore' = sc
                         /\ isSendDocumentRequested' = TRUE
                         /\ lastDocumentSendTime' = nowMs'
                         /\ unassigned' = {}
                         /\ published' = Append(published,
                                                [data |-> d, score |-> sc, time |-> nowMs'])
                    ELSE UNCHANGED <<lastDocumentScore, lastDocumentSendTime, unassigned,
                                     isSendDocumentRequested, published>>
    /\ UNCHANGED <<serverVars, pipeVars, confVars, workerVars, transferVars, exceptPublish>>

\* LiveScanClient::SendDocument, called from Run while the request is set
SendDocument ==
    /\ TRUE \in RequestRead
    /\ isSendDocumentRequested' = FALSE
    /\ unassigned' = unassigned \ {"isSendDocumentRequested"}
    /\ UNCHANGED <<newDocument, lastDocumentData, lastDocumentScore, lastDocumentSendTime,
                   nowMs, candidates, published>>
    /\ UNCHANGED <<serverVars, pipeVars, confVars, workerVars, transferVars, exceptPublish>>

NextPublish == ProcessDocument \/ SendDocument

SpecPublish == InitPipeline /\ [][NextPublish]_vars

\* C14: a candidate is published only if no document was published before,
\* or its normalised mean absolute difference from the previously published
\* document exceeds 0.50, or its score exceeds that document's score, or
\* more than 30000 ms have passed since that publish.
C14_PublishedOnlyIf ==
    [][Len(published') > Len(published) /\ Len(published) > 0 =>
          LET new == published'[Len(published')]
              old == published[Len(published)]
          IN  \/ 2 * Abs(new.data - old.data) > ByteRange
              \/ new.score > old.score
              \/ new.time - old.time > DocumentSendTimeout]_vars

(***************************************************************************)
(* DocumentDetector: SubmitFrame and the detection thread                  *)
(***************************************************************************)
\* the variant in which the thread leaves newFrameAvailable as it is
AfterTake_Kept(available) == available

\* StartDetectionThread, line 81: newFrameAvailable = false
AfterTake(available) == FALSE

\* DocumentDetector::SubmitFrame, under frameMutex: the pair replaces the
\* pending one, and notify_one
SubmitFrame ==
    /\ submitted < MaxSubmits
    /\ submitted' = submitted + 1
    /\ pendingColorFrame' = submitted + 1
    /\ pendingDepthFrame' = submitted + 1
    /\ newFrameAvailable' = TRUE
    /\ UNCHANGED <<stopThread, detectPc, localColor, localDepth, processed, detections>>
    /\ UNCHANGED <<serverVars, pipeVars, confVars, workerVars, transferVars, exceptDetector>>

\* StartDetectionThread, lines 71-82: frameCond.wait returns when
\* newFrameAvailable or stopThread; the thread takes the pending pair
Detect_Take ==
    /\ detectPc = "wait"
    /\ newFrameAvailable \/ stopThread
    /\ IF stopThread
       THEN /\ detectPc' = "stopped"
            /\ UNCHANGED <<localColor, localDepth, newFrameAvailable>>
       ELSE /\ localColor' = pendingColorFrame
            /\ localDepth' = pendingDepthFrame
            /\ newFrameAvailable' = AfterTake(newFrameAvailable)
            /\ detectPc' = "detect"
    /\ UNCHANGED <<pendingColorFrame, pendingDepthFrame, stopThread, submitted, processed,
                   detections>>
    /\ UNCHANGED <<serverVars, pipeVars, confVars, workerVars, transferVars, exceptDetector>>

\* StartDetectionThread, lines 84-98: Detect on the local pair, the callback
\* if a document was found, and the test of the while loop
Detect_Run ==
    /\ detectPc = "detect"
    /\ Len(processed) <= MaxSubmits
    /\ processed' = Append(processed, [color |-> localColor, depth |-> localDepth])
    /\ \E found \in BOOLEAN : detections' = IF found THEN detections + 1 ELSE detections
    /\ detectPc' = IF stopThread THEN "stopped" ELSE "wait"
    /\ UNCHANGED <<pendingColorFrame, pendingDepthFrame, newFrameAvailable, stopThread,
                   localColor, localDepth, submitted>>
    /\ UNCHANGED <<serverVars, pipeVars, confVars, workerVars, transferVars, exceptDetector>>

\* DocumentDetector::StopDetectionThread, under frameMutex
StopDetectionThread ==
    /\ ~stopThread
    /\ stopThread' = TRUE
    /\ UNCHANGED <<pendingColorFrame, pendingDepthFrame, newFrameAvailable, detectPc,
                   localColor, localDepth, submitted, processed, detections>>
    /\ UNCHANGED <<serverVars, pipeVars, confVars, workerVars, transferVars, exceptDetector>>

NextDetector ==
    \/ SubmitFrame
    \/ Detect_Take
    \/ Detect_Run
    \/ StopDetectionThread

SpecDetector == InitPipeline /\ [][NextDetector]_vars

\* the pair submitted last has not been taken by the thread
Untaken == submitted > localColor

\* C15: one pending pair: a submission overwrites the pending pair whether
\* it was taken or not; the thread takes the pair submitted last, colour and
\* depth of the same submission; no pair is processed twice; and while a
\* submitted pair is untaken the wait of the idle thread is satisfied.
C15_OnePendingPair ==
    /\ [][submitted' # submitted =>
             /\ pendingColorFrame' = submitted'
             /\ pendingDepthFrame' = submitted']_vars
    /\ [][detectPc = "wait" /\ detectPc' = "detect" =>
             /\ localColor' = submitted
             /\ localDepth' = submitted]_vars
    /\ [](\A i, j \in DOMAIN processed : processed[i] = processed[j] => i = j)
    /\ [](Untaken /\ detectPc = "wait" => newFrameAvailable)

\* two submissions while the thread was busy with the first: the second was
\* overwritten by the third, which the thread processed next
C15_Witness ==
    /\ submitted = 3
    /\ processed = <<[color |-> 1, depth |-> 1], [color |-> 3, depth |-> 3]>>
    /\ detectPc = "wait"
    /\ ~stopThread

(***************************************************************************)
(* Recording files: FrameIOHandler::WriteFrame and ReadFrame, and the      *)
(* player's FrameFileReaderBin.ReadFrame.  A file is a sequence of bytes.  *)
(***************************************************************************)
NewLine == 10
Space == 32
Digit0 == 48
Minus == 45
ShortRange == 65536
ByteValues == 256

\* "n_points=" and "frame_timestamp=" in ASCII
NPointsLabel == <<110, 95, 112, 111, 105, 110, 116, 115, 61>>
TimestampLabel == <<102, 114, 97, 109, 101, 95, 116, 105, 109, 101, 115, 116, 97, 109, 112, 61>>

\* the points and colours the recorded frames are made of; a frame is a
\* sequence of [P, C] with P a Point3s and C an RGB
RecPointA == [P |-> <<1, -1, 266>>, C |-> <<1, 2, 3>>]
RecPointB == [P |-> <<10, 32, 0>>, C |-> <<10, 32, 255>>]
RecFrames == {<<>>, <<RecPointA>>, <<RecPointB>>, <<RecPointA, RecPointB>>}
RecTimestamps == {0, 12}

RECURSIVE Dec(_)
\* printf %d of a natural number
Dec(n) == IF n < 10 THEN <<Digit0 + n>> ELSE Dec(n \div 10) \o <<Digit0 + (n % 10)>>

\* a short in memory, little endian
ShortBytes(v) ==
    LET u == (v + ShortRange) % ShortRange IN <<u % ByteValues, u \div ByteValues>>

ShortOf(lo, hi) ==
    LET u == lo + ByteValues * hi IN IF 2 * u >= ShortRange THEN u - ShortRange ELSE u

RECURSIVE Flatten(_)
Flatten(seqs) == IF seqs = <<>> THEN <<>> ELSE Head(seqs) \o Flatten(Tail(seqs))

\* fwrite of points.data(): sizeof(Point3s) = 6 bytes a point (pack 1)
PointBytes(frame) ==
    Flatten([i \in DOMAIN frame |->
                ShortBytes(frame[i].P[1]) \o ShortBytes(frame[i].P[2])
                    \o ShortBytes(frame[i].P[3])])

\* fwrite of colors.data(): sizeof(RGB) = 3 bytes a point (pack 1)
ColorBytes(frame) == Flatten([i \in DOMAIN frame |-> frame[i].C])

\* FrameIOHandler::WriteFrame, lines 127-137: the text header, the two binary
\* blocks if there are points, and a newline
FrameBytes(frame, timestamp) ==
    NPointsLabel \o <<Space>> \o Dec(Len(frame)) \o <<NewLine>>
    \o TimestampLabel \o <<Space>> \o Dec(timestamp) \o <<NewLine>>
    \o (IF Len(frame) > 0 THEN PointBytes(frame) \o ColorBytes(frame) ELSE <<>>)
    \o <<NewLine>>

\* the first index over pos at which the file holds byte b, or 0 for none
IndexOf(file, pos, b) ==
    LET hits == {i \in pos + 1 .. Len(file) : file[i] = b}
    IN  IF hits = {} THEN 0 ELSE CHOOSE i \in hits : \A j \in hits : i <= j

IsDigit(b) == b >= Digit0 /\ b < Digit0 + 10

RECURSIVE DigitsValue(_)
DigitsValue(digits) ==
    IF digits = <<>> THEN 0
    ELSE 10 * DigitsValue(SubSeq(digits, 1, Len(digits) - 1)) + (digits[Len(digits)] - Digit0)

\* the frame FrameFileReaderBin decodes from a block of pointCount * 10
\* bytes: shorts from the first 6 bytes a point, and of the colours the first
\* three bytes of every four
PlayerDecode(data, pointCount) ==
    [i \in 1 .. pointCount |->
        [P |-> <<ShortOf(data[6 * i - 5], data[6 * i - 4]),
                 ShortOf(data[6 * i - 3], data[6 * i - 2]),
                 ShortOf(data[6 * i - 1], data[6 * i])>>,
         C |-> <<data[6 * pointCount + 4 * i - 3], data[6 * pointCount + 4 * i - 2],
                 data[6 * pointCount + 4 * i - 1]>>]]

\* the bytes per point FrameFileReaderBin reads: 3 shorts and r, g, b, a
PlayerBytesPerPoint == 10

\* FrameFileReaderBin.ReadLine and Split(' ')[1], Int32.Parse: the line ends
\* at the next '\n' (EndOfStreamException without one); the number is what
\* lies between the first space and the next one
PlayerHeaderLine(file, pos) ==
    LET nl == IndexOf(file, pos, NewLine)
        line == SubSeq(file, pos + 1, nl - 1)
        sp == IndexOf(line, 0, Space)
        sp2 == IndexOf(line, sp, Space)
        part == SubSeq(line, sp + 1, IF sp2 = 0 THEN Len(line) ELSE sp2 - 1)
    IN  IF nl = 0 \/ sp = 0 \/ part = <<>> \/ \E i \in DOMAIN part : ~IsDigit(part[i])
        THEN [ok |-> FALSE, value |-> 0, pos |-> pos]
        ELSE [ok |-> TRUE, value |-> DigitsValue(part), pos |-> nl]

\* FrameFileReaderBin.ReadFrame, lines 72-104, after the two header lines:
\* the block of pointCount * 10 bytes, and one byte more
PlayerBlock(file, start, count, stamp) ==
    LET size == PlayerBytesPerPoint * count.value
        data == SubSeq(file, stamp.pos + 1, stamp.pos + size)
    IN  IF ~count.ok \/ ~stamp.ok
        THEN [result |-> "exception", frame |-> <<>>, pos |-> start]
        ELSE IF stamp.pos + size > Len(file)
        THEN [result |-> "incomplete", frame |-> <<>>, pos |-> 0]
        ELSE IF stamp.pos + size + 1 > Len(file)
        THEN [result |-> "exception", frame |-> PlayerDecode(data, count.value),
              pos |-> stamp.pos + size]
        ELSE [result |-> "ok", frame |-> PlayerDecode(data, count.value),
              pos |-> stamp.pos + size + 1]

\* lines 61-65: the second header line, after the first
PlayerHeader(file, start, count) ==
    CHOOSE r \in {PlayerBlock(file, start, count, stamp) :
                     stamp \in {PlayerHeaderLine(file, count.pos)}} : TRUE

\* one pass of FrameFileReaderBin.ReadFrame from position pos, lines 57-104,
\* without the retry
PlayerAttempt(file, pos) ==
    LET start == IF pos = Len(file) THEN 0 ELSE pos
    IN  CHOOSE r \in {PlayerHeader(file, start, count) :
                         count \in {PlayerHeaderLine(file, start)}} : TRUE

\* FrameFileReaderBin.ReadFrame: an incomplete frame rewinds and reads again,
\* which does not end when the first frame of the file is incomplete too
PlayerReadFrame(file, pos) ==
    LET first == PlayerAttempt(file, pos)
        again == PlayerAttempt(file, 0)
    IN  IF first.result # "incomplete" THEN first
        ELSE IF again.result # "incomplete" THEN again
        ELSE [result |-> "overflow", frame |-> <<>>, pos |-> 0]

\* isspace
IsSpace(b) == b \in {9, 10, 11, 12, 13, Space}

\* the first index over pos whose byte is not white space, is white space,
\* is not a digit; one over the length of the file for none
FirstNonSpace(file, pos) ==
    LET hits == {i \in pos + 1 .. Len(file) : ~IsSpace(file[i])}
    IN  IF hits = {} THEN Len(file) + 1 ELSE CHOOSE i \in hits : \A j \in hits : i <= j

FirstSpace(file, pos) ==
    LET hits == {i \in pos + 1 .. Len(file) : IsSpace(file[i])}
    IN  IF hits = {} THEN Len(file) + 1 ELSE CHOOSE i \in hits : \A j \in hits : i <= j

FirstNonDigit(file, pos) ==
    LET hits == {i \in pos + 1 .. Len(file) : ~IsDigit(file[i])}
    IN  IF hits = {} THEN Len(file) + 1 ELSE CHOOSE i \in hits : \A j \in hits : i <= j

\* fscanf %s: white space is skipped, the token runs to the next white space
ScanString(file, pos) ==
    LET from == FirstNonSpace(file, pos)
    IN  IF from > Len(file) THEN [ok |-> FALSE, pos |-> pos]
        ELSE [ok |-> TRUE, pos |-> FirstSpace(file, from) - 1]

\* fscanf %d: white space is skipped, a sign, and the digits that follow
ScanInt(file, pos) ==
    LET from == FirstNonSpace(file, pos)
        signed == from <= Len(file) /\ file[from] = Minus
        first == IF signed THEN from + 1 ELSE from
        end == FirstNonDigit(file, first - 1)
        digits == SubSeq(file, first, end - 1)
    IN  IF digits = <<>> THEN [ok |-> FALSE, value |-> 0, pos |-> pos]
        ELSE [ok |-> TRUE, pos |-> end - 1,
              value |-> IF signed THEN 0 - DigitsValue(digits) ELSE DigitsValue(digits)]

\* the frame FrameIOHandler::ReadFrame decodes: numPoints Point3s of 6 bytes,
\* then numPoints RGB of 3 bytes
ClientDecode(data, numPoints) ==
    [i \in 1 .. numPoints |->
        [P |-> <<ShortOf(data[6 * i - 5], data[6 * i - 4]),
                 ShortOf(data[6 * i - 3], data[6 * i - 2]),
                 ShortOf(data[6 * i - 1], data[6 * i])>>,
         C |-> <<data[6 * numPoints + 3 * i - 2], data[6 * numPoints + 3 * i - 1],
                 data[6 * numPoints + 3 * i]>>]]

ClientBytesPerPoint == 9

\* FrameIOHandler::ReadFrame, lines 76-114: fscanf of "%s %d %s %d", false
\* for fewer than four items, true for no points, and else fgetc, the two
\* fread and fgetc
ClientReadFrame(file, pos) ==
    LET label1 == ScanString(file, pos)
        count == ScanInt(file, label1.pos)
        label2 == ScanString(file, count.pos)
        stamp == ScanInt(file, label2.pos)
        size == ClientBytesPerPoint * count.value
        from == stamp.pos + 1
    IN  IF ~label1.ok \/ ~count.ok \/ ~label2.ok \/ ~stamp.ok
        THEN [result |-> FALSE, frame |-> <<>>, pos |-> pos]
        ELSE IF count.value = 0
        THEN [result |-> TRUE, frame |-> <<>>, pos |-> stamp.pos]
        ELSE IF count.value < 0 \/ from + size > Len(file)
        THEN [result |-> FALSE, frame |-> <<>>, pos |-> Len(file)]
        ELSE [result |-> TRUE,
              frame |-> ClientDecode(SubSeq(file, from + 1, from + size), count.value),
              pos |-> from + size + 1]

\* LiveScanClient::UpdateFrame, line 371: a frame is recorded
WriteFrame ==
    /\ recPc = "writing"
    /\ Len(recFrames) < MaxRecorded
    /\ \E frame \in RecFrames, timestamp \in RecTimestamps :
         /\ recFile' = recFile \o FrameBytes(frame, timestamp)
         /\ recFrames' = Append(recFrames, frame)
    /\ UNCHANGED <<recPc, playerPos, playerOut, playerPc, clientPos, clientOut, clientDone>>
    /\ UNCHANGED <<serverVars, pipeVars, confVars, workerVars, transferVars, exceptRec>>

\* the recording ends: the file is closed and opened for reading
OpenFileForReading ==
    /\ recPc = "writing"
    /\ recFrames # <<>>
    /\ recPc' = "reading"
    /\ UNCHANGED <<recFile, recFrames, playerPos, playerOut, playerPc, clientPos, clientOut,
                   clientDone>>
    /\ UNCHANGED <<serverVars, pipeVars, confVars, workerVars, transferVars, exceptRec>>

\* PlayerWindowForm calls FrameFileReaderBin.ReadFrame for the next frame
Player_ReadFrame ==
    /\ recPc = "reading"
    /\ playerPc = "ok"
    /\ Len(playerOut) < MaxReads
    /\ \E r \in {PlayerReadFrame(recFile, playerPos)} :
           /\ playerPc' = r.result
           /\ playerPos' = r.pos
           /\ playerOut' = IF r.result = "ok" THEN Append(playerOut, r.frame) ELSE playerOut
    /\ UNCHANGED <<recFile, recFrames, recPc, clientPos, clientOut, clientDone>>
    /\ UNCHANGED <<serverVars, pipeVars, confVars, workerVars, transferVars, exceptRec>>

\* LiveScanClient::RequestRecordedFrame calls FrameIOHandler::ReadFrame
RequestRecordedFrame ==
    /\ recPc = "reading"
    /\ ~clientDone
    /\ \E r \in {ClientReadFrame(recFile, clientPos)} :
           /\ clientDone' = ~r.result
           /\ clientPos' = r.pos
           /\ clientOut' = IF r.result THEN Append(clientOut, r.frame) ELSE clientOut
    /\ UNCHANGED <<recFile, recFrames, recPc, playerPos, playerOut, playerPc>>
    /\ UNCHANGED <<serverVars, pipeVars, confVars, workerVars, transferVars, exceptRec>>

NextRecording ==
    \/ WriteFrame
    \/ OpenFileForReading
    \/ Player_ReadFrame
    \/ RequestRecordedFrame

SpecRecording == InitPipeline /\ [][NextRecording]_vars

\* the frames read are the frames written, in order, from F1 again after Fn
ReadBack(out) ==
    \A i \in DOMAIN out : out[i] = recFrames[((i - 1) % Len(recFrames)) + 1]

\* C16: reading a recording back yields exactly the frames written, in
\* order and bit-identical, and playback then loops back to the first frame:
\* no read of the player fails, and what it has read is F1..Fn, F1, ...
C16_RoundTrip ==
    /\ playerPc = "ok"
    /\ ReadBack(playerOut)

\* the same for FrameIOHandler::ReadFrame, which ends after Fn
ClientRoundTrip ==
    /\ Len(clientOut) <= Len(recFrames)
    /\ ReadBack(clientOut)
    /\ clientDone => clientOut = recFrames

(***************************************************************************)
(* LiveScanClient::ProcessFrame: calibration, bounds, the voxel grid, the  *)
(* density filter and the conversion to shorts                             *)
(***************************************************************************)
VoxelSizeUnits == 51
MinPointsPerVoxel == 12
GridSize == 255
NumFilterNeighbors == 10
FilterThresholdUnits == 85
MillimetreNum == 2
MillimetreDen == 17

\* VoxelGridFilter::VoxelGridFilter: minX, minY, minZ for the centres
\* XRangeCenter = 0, YRangeCenter = 0, ZRangeCenter = HalfRange
GridMin == <<-HalfRangeUnits, -HalfRangeUnits, 0>>

\* static_cast<int> of a quotient: towards zero
TruncDiv(a, b) == IF a >= 0 THEN a \div b ELSE 0 - ((0 - a) \div b)

\* RotatePoint
RotatePoint(point, R) ==
    [i \in 1 .. 3 |-> point[1] * R[i][1] + point[2] * R[i][2] + point[3] * R[i][3]]

\* ProcessFrame, lines 436-439: the translation by worldT, then the rotation
ToWorld(point) ==
    RotatePoint([i \in 1 .. 3 |-> point[i] + calibration.worldT[i]], calibration.worldR)

\* ProcessFrame, lines 442-444
OutsideBounds(point) ==
    \E i \in 1 .. 3 : point[i] < bounds[i] \/ point[i] > bounds[i + 3]

\* VoxelGridFilter::Insert, lines 48-50: the indices of the voxel
GridCell(point) ==
    [i \in 1 .. 3 |-> TruncDiv(point[i] - GridMin[i], MinPrecisionUnits)]

\* VoxelGridFilter::Insert, lines 53-57
OutsideGrid(cell) == \E i \in 1 .. 3 : cell[i] < 0 \/ cell[i] >= GridSize

InvalidPoint == [X |-> <<0, 0, 0>>, Invalid |-> TRUE]

RECURSIVE CalibratedVertices(_, _)
\* ProcessFrame, lines 429-458 when calibrated: a vertex outside the bounds,
\* outside the grid or in an occupied voxel becomes the invalid point
CalibratedVertices(vertices, occupied) ==
    IF vertices = <<>> THEN <<>>
    ELSE LET temp == ToWorld(Head(vertices))
             cell == GridCell(temp)
             kept == ~OutsideBounds(temp) /\ ~OutsideGrid(cell) /\ cell \notin occupied
         IN  <<IF kept THEN [X |-> temp, Invalid |-> FALSE] ELSE InvalidPoint>>
             \o CalibratedVertices(Tail(vertices),
                                   IF kept THEN occupied \cup {cell} ELSE occupied)

\* ProcessFrame, lines 429-458
AllVertices(vertices) ==
    IF calibration.isCalibrated
    THEN CalibratedVertices(vertices, {})
    ELSE [i \in DOMAIN vertices |-> [X |-> vertices[i], Invalid |-> FALSE]]

Valid(all) == {i \in DOMAIN all : ~all[i].Invalid}

\* ProcessFrame, lines 476-478: the voxel of the density filter
DensityVoxel(point) == [i \in 1 .. 3 |-> point[i] \div VoxelSizeUnits]

\* ProcessFrame, lines 461-502: a valid vertex with fewer than
\* minPointsPerVoxel valid vertices in its voxel becomes the invalid point
DensityFiltered(all) ==
    [i \in DOMAIN all |->
        IF /\ ~all[i].Invalid
           /\ Cardinality({j \in Valid(all) : DensityVoxel(all[j].X) = DensityVoxel(all[i].X)})
                < MinPointsPerVoxel
        THEN InvalidPoint ELSE all[i]]

RECURSIVE ValidOnly(_)
ValidOnly(all) ==
    IF all = <<>> THEN <<>>
    ELSE (IF Head(all).Invalid THEN <<>> ELSE <<Head(all).X>>) \o ValidOnly(Tail(all))

\* ProcessFrame, lines 505-519: goodVertices has goodVerticesCount elements,
\* the count before the density filter; the valid vertices are copied to its
\* front and the rest stays Point3f()
Compacted(all, filtered) ==
    LET count == Cardinality(Valid(all))
        valid == ValidOnly(filtered)
    IN  [i \in 1 .. count |-> IF i <= Len(valid) THEN valid[i] ELSE <<0, 0, 0>>]

SquaredDistance(a, b) ==
    (a[1] - b[1]) * (a[1] - b[1]) + (a[2] - b[2]) * (a[2] - b[2])
        + (a[3] - b[3]) * (a[3] - b[3])

RECURSIVE Inliers(_, _)
\* Filter: a vertex whose k-th neighbour is farther than maxDist is removed
Inliers(vertices, i) ==
    IF i > Len(vertices) THEN <<>>
    ELSE (IF Cardinality({j \in DOMAIN vertices \ {i} :
                             SquaredDistance(vertices[i], vertices[j])
                                 <= FilterThresholdUnits * FilterThresholdUnits})
                >= NumFilterNeighbors
          THEN <<vertices[i]>> ELSE <<>>)
         \o Inliers(vertices, i + 1)

\* Point3s(Point3f&): static_cast<short>(1000 * x), metres to millimetres
ToShort(point) ==
    [i \in 1 .. 3 |-> TruncDiv(MillimetreNum * point[i], MillimetreDen)]

\* the vertices ProcessFrame keeps of a frame
ProcessedVertices(vertices) ==
    LET all == AllVertices(vertices)
        good == Compacted(all, DensityFiltered(all))
    IN  IF isFilterEnabled THEN Inliers(good, 1) ELSE good

\* the frames of the camera: a cluster of twelve vertices in one voxel of
\* the density filter, and single vertices
ClusterPart == <<<<5, 5, 5>>, <<15, 5, 5>>, <<25, 5, 5>>, <<35, 5, 5>>,
                 <<5, 15, 5>>, <<15, 15, 5>>, <<25, 15, 5>>, <<35, 15, 5>>,
                 <<5, 25, 5>>, <<15, 25, 5>>, <<25, 25, 5>>, <<35, 25, 5>>>>
SameVoxelPart == <<<<7, 5, 5>>>>
SparsePart == <<<<205, 5, 5>>>>
SecondSparsePart == <<<<405, 5, 5>>>>
FarPart == <<<<5000, 5, 5>>>>
CameraFrames ==
    {a \o b \o c \o d \o e : a \in {<<>>, ClusterPart}, b \in {<<>>, SameVoxelPart},
                             c \in {<<>>, SparsePart}, d \in {<<>>, SecondSparsePart},
                             e \in {<<>>, FarPart}}

\* the settings of the server and the calibrations
BoundsSettings ==
    {<<-DefaultBound, -DefaultBound, -DefaultBound, DefaultBound, DefaultBound, DefaultBound>>,
     <<3, -DefaultBound, -DefaultBound, DefaultBound, DefaultBound, DefaultBound>>}
Translations == {<<0, 0, 0>>, <<10, 0, 0>>}
Rotations == {Identity3, <<<<0, -1, 0>>, <<1, 0, 0>>, <<0, 0, 1>>>>}

\* LiveScanClient::SetSettings: bounds and the filter flag
SetSettings ==
    /\ \E b \in BoundsSettings, f \in BOOLEAN :
         /\ bounds' = b
         /\ isFilterEnabled' = f
    /\ UNCHANGED <<calibration, cameraVertices, goodVertices, lastFrameVertices,
                   framesProcessed>>
    /\ UNCHANGED <<serverVars, pipeVars, confVars, workerVars, transferVars, exceptFilter>>

\* Calibration::LoadCalibration at the start of Run: the calibration of an
\* earlier run is read from its file
LoadCalibration ==
    /\ ~calibration.isCalibrated
    /\ calibrateRequests = 0
    /\ \E t \in Translations, r \in Rotations :
         calibration' = [calibration EXCEPT !.isCalibrated = TRUE, !.worldT = t,
                                            !.worldR = r, !.usedMarkerId = 0]
    /\ isConfirmCalibratedRequested' = TRUE
    /\ UNCHANGED <<bounds, isFilterEnabled, cameraVertices, goodVertices, lastFrameVertices,
                   framesProcessed>>
    /\ UNCHANGED <<isCalibrateRequested, calibrateRes, scene, calibrateRequests, moves,
                   finalisations, steady>>
    /\ UNCHANGED <<serverVars, pipeVars, confVars, workerVars, transferVars, exceptCal>>

\* LiveScanClient::UpdateFrame, lines 340-359: a frame is acquired and
\* ProcessFrame is called for it
ProcessFrame ==
    /\ framesProcessed < MaxProcessed
    /\ framesProcessed' = framesProcessed + 1
    /\ \E vertices \in CameraFrames :
         /\ cameraVertices' = vertices
         /\ \E good \in {ProcessedVertices(vertices)} :
              /\ goodVertices' = good
              /\ lastFrameVertices' = [i \in DOMAIN good |-> ToShort(good[i])]
    /\ UNCHANGED <<calibration, bounds, isFilterEnabled>>
    /\ UNCHANGED <<serverVars, pipeVars, confVars, workerVars, transferVars, exceptFilter>>

NextFilter ==
    \/ SetSettings
    \/ LoadCalibration
    \/ ProcessFrame

SpecFilter == InitPipeline /\ [][NextFilter]_vars

\* the minPrecision voxel cell of a point
PrecisionCell(point) == [i \in 1 .. 3 |-> point[i] \div MinPrecisionUnits]

\* C17: no two points in the processed output of a camera frame fall in the
\* same minPrecision voxel cell (stated for a calibrated pipeline, the only
\* one that uses the voxel grid, and for the points before their conversion
\* to shorts).
C17_OnePointPerCell ==
    [][framesProcessed' # framesProcessed /\ calibration.isCalibrated =>
          \A i, j \in DOMAIN goodVertices' :
              PrecisionCell(goodVertices'[i]) = PrecisionCell(goodVertices'[j]) => i = j]_vars

\* C18: every point of a processed frame lies within the configured bounds
\* on all three axes (stated for a calibrated pipeline, the only one that
\* tests the bounds).
C18_WithinBounds ==
    [][framesProcessed' # framesProcessed /\ calibration.isCalibrated =>
          \A i \in DOMAIN goodVertices' :
              \A k \in 1 .. 3 : /\ goodVertices'[i][k] >= bounds[k]
                                /\ goodVertices'[i][k] <= bounds[k + 3]]_vars

(***************************************************************************)
(* Calibration: the pose of the camera from NumRequiredSamples samples of  *)
(* a marker.  Lengths are in units of a sixtieth of the half width of the  *)
(* marker, so that the corners of the marker and the means of the samples  *)
(* are whole numbers.                                                      *)
(***************************************************************************)
NumRequiredSamples == 20
NumMarkerCorners == 5
MarkerUnit == 60
MarkerFoot == 100

\* MarkerDetector::NormalizedMarkerPoints3D, the Points of every MarkerInfo
NormalizedMarkerPoints3D ==
    <<<<0, -MarkerUnit, 0>>, <<-MarkerUnit, -MarkerFoot, 0>>, <<-MarkerUnit, MarkerUnit, 0>>,
      <<MarkerUnit, MarkerUnit, 0>>, <<MarkerUnit, -MarkerFoot, 0>>>>

\* the sum of a sequence of numbers
RECURSIVE SumOf(_)
SumOf(seq) == IF seq = <<>> THEN 0 ELSE Head(seq) + SumOf(Tail(seq))

\* the mean the code accumulates as the sum of value / count
MeanOf(seq) == TruncDiv(SumOf(seq), Len(seq))

\* Get3DMarkerCorners for a frame whose depth is good: the corners of the
\* marker in camera space, the marker turned by the facing of the camera
\* and standing at scene.at
CornersOf(sc) ==
    [i \in 1 .. NumMarkerCorners |->
        LET turned == RotatePoint(NormalizedMarkerPoints3D[i], sc.facing)
        IN  [k \in 1 .. 3 |-> turned[k] + sc.at[k]]]

\* the frames a scene can give: the marker found or not by
\* DetectMarkersInImage, the depth at its corners good or not
FramesOf(sc) ==
    {[detected |-> d, Id |-> sc.Id, marker3D |-> CornersOf(sc), depthOk |-> z] :
        d \in BOOLEAN, z \in BOOLEAN}

\* Calibrate, lines 76-91: the index of the marker in markerPoses, or -1
IndexInPoses(id) ==
    IF \E j \in DOMAIN markerPoses : markerPoses[j].MarkerId = id
    THEN CHOOSE j \in DOMAIN markerPoses :
             /\ markerPoses[j].MarkerId = id
             /\ \A h \in DOMAIN markerPoses : markerPoses[h].MarkerId = id => j <= h
    ELSE -1

\* Calibrate, lines 113-123: the mean of every corner over the first
\* NumRequiredSamples samples
MeanCorners(samples) ==
    [i \in 1 .. NumMarkerCorners |->
        [k \in 1 .. 3 |-> MeanOf([j \in 1 .. NumRequiredSamples |-> samples[j][i][k]])]]

\* Procrustes, lines 238-250: the centroid of a set of points
CenterOf(points) ==
    [k \in 1 .. 3 |-> MeanOf([i \in DOMAIN points |-> points[i][k]])]

Centred(points) ==
    LET center == CenterOf(points)
    IN  [i \in DOMAIN points |-> [k \in 1 .. 3 |-> points[i][k] - center[k]]]

Transposed(R) == [i \in 1 .. 3 |-> [j \in 1 .. 3 |-> R[j][i]]]

\* the assignment of lines 253-256 written as an accumulation
ProcrustesT_Added(worldToMarkerT, markerCenterInWorld) ==
    [k \in 1 .. 3 |-> worldToMarkerT[k] - markerCenterInWorld[k]]

\* Procrustes, lines 253-256: worldToMarkerT is overwritten with the
\* opposite of the centroid of the marker in camera space
ProcrustesT(worldToMarkerT, markerCenterInWorld) ==
    [k \in 1 .. 3 |-> 0 - markerCenterInWorld[k]]

\* Procrustes, lines 258-316: u * vt of the singular value decomposition of
\* A^T B for the centred points A of the marker and B of the camera.  For
\* B = A Q^T with Q a rotation, A^T B = (A^T A) Q^T and u * vt = Q^T, the
\* reflection of a flat marker corrected by lines 298-303.
ProcrustesR(points, markerInWorld) ==
    LET A == Centred(points)
        B == Centred(markerInWorld)
        Q == CHOOSE q \in Rotations : \A i \in DOMAIN A : B[i] = RotatePoint(A[i], q)
    IN  Transposed(Q)

\* Calibrate, lines 128-139: the product of two matrices
MatMul(L, R) ==
    [i \in 1 .. 3 |-> [j \in 1 .. 3 |-> L[i][1] * R[1][j] + L[i][2] * R[2][j]
                                          + L[i][3] * R[3][j]]]

\* InverseRotatePoint
InverseRotatePoint(point, R) ==
    [i \in 1 .. 3 |-> point[1] * R[1][i] + point[2] * R[2][i] + point[3] * R[3][i]]

\* Calibrate, lines 113-156: the calibration from the samples
Finalised(cal, samples, markerPose) ==
    LET marker3D == MeanCorners(samples)
        T0 == ProcrustesT(cal.worldT, CenterOf(marker3D))
        R0 == ProcrustesR(NormalizedMarkerPoints3D, marker3D)
        R1 == MatMul(markerPose.R, R0)
        translationIncr == InverseRotatePoint(markerPose.T, R1)
    IN  [cal EXCEPT !.worldT = [k \in 1 .. 3 |-> T0[k] + translationIncr[k]],
                    !.worldR = R1,
                    !.isCalibrated = TRUE,
                    !.markerSamplePositions = <<>>,
                    !.numSamples = 0]

\* Calibration::Calibrate: the calibration after the call and what it
\* returns
Calibrate(cal, frame) ==
    IF ~frame.detected THEN [cal |-> cal, res |-> FALSE]
    ELSE IF IndexInPoses(frame.Id) = -1 THEN [cal |-> cal, res |-> FALSE]
    ELSE LET markerPose == markerPoses[IndexInPoses(frame.Id)]
             used == [cal EXCEPT !.usedMarkerId = markerPose.MarkerId]
             samples == Append(cal.markerSamplePositions, frame.marker3D)
             sampled == [used EXCEPT !.markerSamplePositions = samples,
                                     !.numSamples = cal.numSamples + 1]
         IN  IF ~frame.depthOk THEN [cal |-> used, res |-> FALSE]
             ELSE IF sampled.numSamples < NumRequiredSamples
                  THEN [cal |-> sampled, res |-> FALSE]
                  ELSE [cal |-> Finalised(sampled, samples, markerPose), res |-> TRUE]

\* LiveScanClient::Calibrate: the server asks for a calibration
LiveScanClient_Calibrate ==
    /\ calibrateRequests < MaxCalibrations
    /\ calibrateRequests' = calibrateRequests + 1
    /\ isCalibrateRequested' = TRUE
    /\ UNCHANGED <<isConfirmCalibratedRequested, calibrateRes, scene, moves, finalisations,
                   steady>>
    /\ UNCHANGED filterVars
    /\ UNCHANGED <<serverVars, pipeVars, confVars, workerVars, transferVars, exceptCal>>

\* LiveScanClient::UpdateFrame, lines 377-406: while a calibration is
\* requested the frame is given to Calibrate; a call that returns true ends
\* the request and asks for the confirmation
UpdateFrame_Calibrate ==
    /\ isCalibrateRequested
    /\ \E frame \in FramesOf(scene) :
         \E out \in {Calibrate(calibration, frame)} :
            /\ calibration' = out.cal
            /\ calibrateRes' = IF out.res THEN "true" ELSE "false"
            /\ isCalibrateRequested' = ~out.res
            /\ isConfirmCalibratedRequested' = (out.res \/ isConfirmCalibratedRequested)
            /\ finalisations' = IF out.res THEN finalisations + 1 ELSE finalisations
    /\ UNCHANGED <<scene, calibrateRequests, moves, steady>>
    /\ UNCHANGED <<bounds, isFilterEnabled, cameraVertices, goodVertices, lastFrameVertices,
                   framesProcessed>>
    /\ UNCHANGED <<serverVars, pipeVars, confVars, workerVars, transferVars, exceptCal>>

\* LiveScanClient::ConfirmCalibrated, called by the socket thread
ConfirmCalibrated ==
    /\ isConfirmCalibratedRequested
    /\ isConfirmCalibratedRequested' = FALSE
    /\ UNCHANGED <<isCalibrateRequested, calibrateRes, scene, calibrateRequests, moves,
                   finalisations, steady>>
    /\ UNCHANGED filterVars
    /\ UNCHANGED <<serverVars, pipeVars, confVars, workerVars, transferVars, exceptCal>>

\* the scenes: the marker 0 at its first place or moved, the marker 1 with
\* the camera facing it or turned, the marker 2, for which the settings
\* have no pose
Scenes ==
    {FirstScene,
     [Id |-> 0, at |-> <<200, 0, 1000>>, facing |-> Identity3],
     [Id |-> 1, at |-> <<200, 0, 1000>>, facing |-> Identity3],
     [Id |-> 1, at |-> <<0, 0, 1000>>, facing |-> RotZ],
     [Id |-> 2, at |-> <<0, 0, 1000>>, facing |-> Identity3]}

\* somebody moves the marker or shows another one; the camera is turned
\* only while it has no sample
MoveMarker ==
    /\ moves < MaxMoves
    /\ moves' = moves + 1
    /\ \E sc \in Scenes :
         /\ sc.facing # scene.facing => calibration.numSamples = 0
         /\ sc # scene
         /\ scene' = sc
    /\ steady' = (steady /\ calibration.numSamples = 0 /\ finalisations = 0)
    /\ UNCHANGED <<isCalibrateRequested, isConfirmCalibratedRequested, calibrateRes,
                   calibrateRequests, finalisations>>
    /\ UNCHANGED filterVars
    /\ UNCHANGED <<serverVars, pipeVars, confVars, workerVars, transferVars, exceptCal>>

NextCalibration ==
    \/ LiveScanClient_Calibrate
    \/ UpdateFrame_Calibrate
    \/ ConfirmCalibrated
    \/ MoveMarker

SpecCalibration == InitPipeline /\ [][NextCalibration]_vars

C20_BestEffort ==
    [][UpdateFrame_Calibrate /\ calibrateRes' = "false"
       => /\ calibration'.worldR = calibration.worldR
          /\ calibration'.worldT = calibration.worldT
          /\ calibration'.usedMarkerId = calibration.usedMarkerId
          /\ calibration'.isCalibrated = calibration.isCalibrated
          /\ Len(calibration'.markerSamplePositions) >= Len(calibration.markerSamplePositions)
          /\ SubSeq(calibration'.markerSamplePositions, 1,
                    Len(calibration.markerSamplePositions))
                = calibration.markerSamplePositions]_vars

(***************************************************************************)
(* VoxelGridFilter: Reset and Insert                                       *)
(***************************************************************************)
\* VoxelGridFilter::VoxelIndex
VoxelIndex(cell) == cell[3] * GridSize * GridSize + cell[2] * GridSize + cell[1]

\* line 67 left out: the voxel is not marked
Marked_Not(grid, idx) == grid

\* Insert, line 67: the voxel is marked as occupied
Marked(grid, idx) == grid \cup {idx}

\* the points given to Insert: two of one voxel, one just below the grid
\* that the conversion to int brings into the same voxel, one of the next
\* voxel, the corners of the grid, and two outside of it
InsertPoints ==
    {<<0, 0, 5>>, <<3, 0, 7>>, <<0, 0, -5>>, <<10, 0, 5>>,
     <<-HalfRangeUnits, -HalfRangeUnits, 0>>,
     <<HalfRangeUnits - 1, HalfRangeUnits - 1, 2 * HalfRangeUnits - 1>>,
     <<0, 0, -15>>, <<0, 0, 2 * HalfRangeUnits>>}

\* VoxelGridFilter::Reset
Reset ==
    /\ voxelGrid' = {}
    /\ granted' = {}
    /\ inserted' = [point |-> <<>>, res |-> FALSE]
    /\ UNCHANGED <<serverVars, pipeVars, confVars, workerVars, transferVars, exceptVoxel>>

\* VoxelGridFilter::Insert
Insert(point) ==
    /\ LET cell == GridCell(point)
           idx == VoxelIndex(cell)
           res == ~OutsideGrid(cell) /\ idx \notin voxelGrid
       IN  /\ voxelGrid' = IF res THEN Marked(voxelGrid, idx) ELSE voxelGrid
           /\ inserted' = [point |-> point, res |-> res]
           /\ granted' = IF res THEN granted \cup {cell} ELSE granted
    /\ UNCHANGED <<serverVars, pipeVars, confVars, workerVars, transferVars, exceptVoxel>>

NextVoxel ==
    \/ Reset
    \/ \E point \in InsertPoints : Insert(point)

SpecVoxel == InitPipeline /\ [][NextVoxel]_vars

\* C21: between two calls of Reset, Insert returns true at most once for a
\* cell: a call that returns true is for a cell no earlier call since the
\* last Reset has returned true for, and a call for the point of the call
\* before it returns false.
C21_TrueOncePerCell ==
    [][\A point \in InsertPoints :
          Insert(point) =>
             /\ inserted'.res => GridCell(point) \notin granted
             /\ point = inserted.point => ~inserted'.res]_vars

\* a second insert of a point has returned false while its cell is occupied
\* and another cell has been granted as well
C21_Witness ==
    /\ inserted = [point |-> <<3, 0, 7>>, res |-> FALSE]
    /\ GridCell(<<3, 0, 7>>) \in granted
    /\ Cardinality(granted) >= 2

(***************************************************************************)
(* The one-shot flags: a thread sets a flag, SendClientConfirmations calls *)
(* the callback for it and clears it                                       *)
(***************************************************************************)
\* what a read of a flag can give: anything while it has no value
FlagRead(f) == IF f \in neverAssigned THEN BOOLEAN ELSE {requested[f]}

\* the flag that follows in the loop of SendClientConfirmations; the sleep
\* of line 333 leads back to the first
NextFlag(i) == IF i = Len(ConfirmFlags) THEN 1 ELSE i + 1

\* UpdateFrame line 373, Run line 94 and UpdateFrame line 403, EnableSync,
\* DisableSync and StartMaster lines 207-294, ProcessDocument lines 558 and
\* 573: a thread sets a flag, after the callback for its earlier requests
\* has been called
RaiseFlag(f) ==
    /\ SumOf([i \in DOMAIN ConfirmFlags |-> raises[ConfirmFlags[i]]]) < MaxRaises
    /\ callbacks[f] >= raises[f]
    /\ requested' = [requested EXCEPT ![f] = TRUE]
    /\ neverAssigned' = neverAssigned \ {f}
    /\ raises' = [raises EXCEPT ![f] = @ + 1]
    /\ UNCHANGED <<sccPc, callbacks>>
    /\ UNCHANGED <<serverVars, pipeVars, confVars, workerVars, transferVars, exceptConfirm>>

\* SendClientConfirmations, lines 308-331: the test of a flag; when it is
\* read as true the Confirm function of the flag is entered and calls the
\* callback
Confirm_Test ==
    /\ sccPc.in = "test"
    /\ \E value \in FlagRead(ConfirmFlags[sccPc.at]) :
         IF value
         THEN /\ callbacks' = [callbacks EXCEPT ![ConfirmFlags[sccPc.at]] = @ + 1]
              /\ sccPc' = [sccPc EXCEPT !.in = "callback"]
         ELSE /\ sccPc' = [sccPc EXCEPT !.at = NextFlag(@)]
              /\ UNCHANGED callbacks
    /\ UNCHANGED <<requested, neverAssigned, raises>>
    /\ UNCHANGED <<serverVars, pipeVars, confVars, workerVars, transferVars, exceptConfirm>>

\* ConfirmRecorded line 624, ConfirmCalibrated 642, ConfirmSyncState 700,
\* ConfirmMasterRestart 710, SendDocument 720: the callback has returned and
\* the flag is cleared
Confirm_Clear ==
    /\ sccPc.in = "callback"
    /\ requested' = [requested EXCEPT ![ConfirmFlags[sccPc.at]] = FALSE]
    /\ neverAssigned' = neverAssigned \ {ConfirmFlags[sccPc.at]}
    /\ sccPc' = [at |-> NextFlag(sccPc.at), in |-> "test"]
    /\ UNCHANGED <<raises, callbacks>>
    /\ UNCHANGED <<serverVars, pipeVars, confVars, workerVars, transferVars, exceptConfirm>>

NextConfirm ==
    \/ \E f \in FlagNames : RaiseFlag(f)
    \/ Confirm_Test
    \/ Confirm_Clear

SpecConfirm == InitPipeline /\ [][NextConfirm]_vars

\* the confirmations thread is inside the callback of the flag
InsideCallback(f) == sccPc.in = "callback" /\ ConfirmFlags[sccPc.at] = f

\* C22: every raise of a one-shot flag leads to exactly one call of its
\* callback: the callback is never called more often than the flag was
\* raised, and once the flag is clear again and the thread has left the
\* callback, it has been called once for every raise.
C22_OneCallbackPerRaise ==
    \A f \in FlagNames :
        /\ callbacks[f] <= raises[f]
        /\ (f \notin neverAssigned /\ ~requested[f] /\ ~InsideCallback(f))
              => callbacks[f] = raises[f]

(***************************************************************************)
(* The recording of frames: RecordFrames calls StartFrameRecording in a    *)
(* loop, every pipeline writes a frame and confirms it                     *)
(***************************************************************************)
exceptRecorder == <<serverVars, pipeVars, confVars, workerVars, transferVars, exceptRecord>>

\* MainWindowForm.RecordFrames, lines 157-159: the worker is not cancelled
\* and calls StartFrameRecording
RecordFrames_Call ==
    /\ recorderPc.at = "idle"
    /\ recordings < MaxRecordings
    /\ recorderPc' = [at |-> "request", i |-> 0]
    /\ UNCHANGED <<recordings, IsFrameRecorded, isRecordFrameRequested,
                   isConfirmRecordedRequested, updatePc, ackPc, tick>>
    /\ UNCHANGED exceptRecorder

\* CameraServer.StartFrameRecording, lines 679-685: CameraClient.
\* StartFrameRecording for the next camera, which clears IsFrameRecorded and
\* has LiveScanClient::StartFrameRecording set isRecordFrameRequested
StartFrameRecording_Request ==
    /\ recorderPc.at = "request"
    /\ LET c == recorderPc.i
       IN  /\ IsFrameRecorded' = [IsFrameRecorded EXCEPT ![c] = FALSE]
           /\ isRecordFrameRequested' = [isRecordFrameRequested EXCEPT ![c] = TRUE]
           /\ recorderPc' = IF c + 1 \in RecordingCams
                            THEN [at |-> "request", i |-> c + 1]
                            ELSE [at |-> "wait", i |-> 0]
    /\ UNCHANGED <<recordings, isConfirmRecordedRequested, updatePc, ackPc, tick>>
    /\ UNCHANGED exceptRecorder

\* CameraServer.StartFrameRecording, lines 688-704: the scan finds every
\* camera recorded and the call returns
StartFrameRecording_Return ==
    /\ recorderPc.at = "wait"
    /\ \A c \in RecordingCams : IsFrameRecorded[c]
    /\ recorderPc' = [at |-> "idle", i |-> 0]
    /\ recordings' = recordings + 1
    /\ UNCHANGED <<IsFrameRecorded, isRecordFrameRequested, isConfirmRecordedRequested,
                   updatePc, ackPc, tick>>
    /\ UNCHANGED exceptRecorder

\* LiveScanClient::UpdateFrame, lines 349-367: a frame is acquired and
\* processed, and isRecordFrameRequested is tested
UpdateFrame_Test(c) ==
    /\ updatePc[c] = "test"
    /\ tick' = [tick EXCEPT ![c] = 1 - @]
    /\ updatePc' = [updatePc EXCEPT ![c] =
           IF isRecordFrameRequested[c] THEN "write" ELSE "test"]
    /\ UNCHANGED <<recorderPc, recordings, IsFrameRecorded, isRecordFrameRequested,
                   isConfirmRecordedRequested, ackPc>>
    /\ UNCHANGED exceptRecorder

\* UpdateFrame, lines 369-373: the frame is written and the confirmation
\* is requested
UpdateFrame_Write(c) ==
    /\ updatePc[c] = "write"
    /\ isConfirmRecordedRequested' = [isConfirmRecordedRequested EXCEPT ![c] = TRUE]
    /\ updatePc' = [updatePc EXCEPT ![c] = "clear"]
    /\ UNCHANGED <<recorderPc, recordings, IsFrameRecorded, isRecordFrameRequested, ackPc,
                   tick>>
    /\ UNCHANGED exceptRecorder

\* UpdateFrame, line 374
UpdateFrame_Clear(c) ==
    /\ updatePc[c] = "clear"
    /\ isRecordFrameRequested' = [isRecordFrameRequested EXCEPT ![c] = FALSE]
    /\ updatePc' = [updatePc EXCEPT ![c] = "test"]
    /\ UNCHANGED <<recorderPc, recordings, IsFrameRecorded, isConfirmRecordedRequested,
                   ackPc, tick>>
    /\ UNCHANGED exceptRecorder

\* SendClientConfirmations, line 308, and ConfirmRecorded, lines 621-622:
\* the flag is found set and the callback sets IsFrameRecorded
ConfirmRecorded_Callback(c) ==
    /\ ackPc[c] = "test"
    /\ isConfirmRecordedRequested[c]
    /\ IsFrameRecorded' = [IsFrameRecorded EXCEPT ![c] = TRUE]
    /\ ackPc' = [ackPc EXCEPT ![c] = "callback"]
    /\ UNCHANGED <<recorderPc, recordings, isRecordFrameRequested,
                   isConfirmRecordedRequested, updatePc, tick>>
    /\ UNCHANGED exceptRecorder

\* ConfirmRecorded, line 624
ConfirmRecorded_Clear(c) ==
    /\ ackPc[c] = "callback"
    /\ isConfirmRecordedRequested' = [isConfirmRecordedRequested EXCEPT ![c] = FALSE]
    /\ ackPc' = [ackPc EXCEPT ![c] = "test"]
    /\ UNCHANGED <<recorderPc, recordings, IsFrameRecorded, isRecordFrameRequested,
                   updatePc, tick>>
    /\ UNCHANGED exceptRecorder

\* the threads of a recording
RecorderStep ==
    \/ RecordFrames_Call
    \/ StartFrameRecording_Request
    \/ StartFrameRecording_Return

CaptureStep(c) ==
    \/ UpdateFrame_Test(c)
    \/ UpdateFrame_Write(c)
    \/ UpdateFrame_Clear(c)

AckStep(c) ==
    \/ ConfirmRecorded_Callback(c)
    \/ ConfirmRecorded_Clear(c)

NextRecord ==
    \/ RecorderStep
    \/ \E c \in RecordingCams : CaptureStep(c)
    \/ \E c \in RecordingCams : AckStep(c)

\* every thread keeps running, and every camera keeps delivering frames
SpecRecord ==
    /\ InitPipeline
    /\ [][NextRecord]_vars
    /\ WF_vars(RecorderStep)
    /\ \A c \in RecordingCams : WF_vars(CaptureStep(c)) /\ WF_vars(AckStep(c))

\* C23: every call of StartFrameRecording returns: the worker that waits
\* for the confirmations of the cameras gets them all.
C23_RecordingReturns ==
    (recorderPc.at = "wait") ~> (recorderPc.at = "idle")

(***************************************************************************)
(* The rounds of EnableSync when no call of the SDK fails and every thread *)
(* keeps running                                                           *)
(***************************************************************************)
\* as InitSync, with no failure of the SDK to come
InitSyncLive ==
    /\ InitTransfer
    /\ InitOther
    /\ allDevicesInitialized = TRUE
    /\ waitForSubordinateStart = FALSE
    /\ liveScanClients = [c \in Cams |-> NewCameraClient]
    /\ uiPc = "idle"
    /\ uiQueue = <<>>
    /\ btSyncEnable = TRUE
    /\ rounds = 0
    /\ startMasterCalls = 0
    /\ client = [c \in Cams |-> NewLiveScanClient]
    /\ captureManager = [c \in Cams |-> NewCaptureManager]
    /\ lastCall = [c \in Cams |-> NoCall]
    /\ running = [c \in Cams |-> FALSE]
    /\ deviceSerial \in SyncSerials
    /\ faults = 0
    /\ confPc = [c \in Cams |-> "idle"]
    /\ ackState = [c \in Cams |-> Standalone]
    /\ workerPc = [c \in Cams |-> "loop"]
    /\ frameset = [c \in Cams |-> NoFrame]
    /\ frameCount = [c \in Cams |-> 0]

NextSyncLive ==
    \/ EnableSyncBegin
    \/ OpenSettingsForm
    \/ Dispatch
    \/ \E c \in Cams : Run(c)
    \/ \E c \in Cams : SendClientConfirmations(c)

\* the UI thread finishes the loop of EnableSync, every pipeline starts and
\* its confirmations thread keeps polling
SpecSyncLive ==
    /\ InitSyncLive
    /\ [][NextSyncLive]_vars
    /\ WF_vars(Dispatch)
    /\ \A c \in Cams : WF_vars(Run(c)) /\ WF_vars(SendClientConfirmations(c))

\* EnableSync has set the round up and has called no camera yet, and every
\* camera is running and has reported the serial number the round sorted by
RoundBegun ==
    /\ ~allDevicesInitialized
    /\ waitForSubordinateStart
    /\ uiPc = "dispatch"
    /\ uiQueue = EnableSyncCalls(liveScanClients)
    /\ \A c \in Cams : running[c]

\* C24: a round of EnableSync over running cameras, none of which fails to
\* close and reopen, eventually completes: allDevicesInitialized becomes
\* true again, for any number of Subordinates and any order of the ACKs.
C24_RoundCompletes ==
    RoundBegun ~> allDevicesInitialized

(***************************************************************************)
(* The fused buffers: MainWindowForm.UpdateLatestFrame rewrites them, the  *)
(* broadcaster of the point cloud server reads them                        *)
(***************************************************************************)
exceptFused == <<serverVars, pipeVars, confVars, workerVars, transferVars, exceptFuse>>

FuseCams == 1 .. 2

\* the floats and the bytes a camera contributes to a frame: each point is
\* named by its camera and the frame it belongs to
PointsOfCamera(c, frame, size, of) ==
    [k \in 1 .. size |-> [cam |-> c, frame |-> frame, of |-> of]]

VerticesOfCamera(c, frame, size) == PointsOfCamera(c, frame, size, "vertex")

ColorsOfCamera(c, frame, size) == PointsOfCamera(c, frame, size, "color")

\* Monitor.Enter on the list: a thread enters when no thread holds it
MonitorFree_Always(owner) == TRUE

MonitorFree(owner) == owner = "none"

\* UpdateLatestFrame, lines 273-286: the sleep, the test of
\* GetAllDevicesInitialized and GetLatestFrame under lock (cameraVertices)
UpdateLatestFrame_Get ==
    /\ mergePc.at = "sleep"
    /\ merges < MaxMerges
    /\ merges' = merges + 1
    /\ \E sizes \in [FuseCams -> 0 .. 1] :
         cameraFrames' = [c \in FuseCams |-> [frame |-> merges + 1, size |-> sizes[c]]]
    /\ mergePc' = [at |-> "lock", i |-> 0]
    /\ UNCHANGED <<Vertices, Colors, lockOwner, encodePc, encoded, encodes>>
    /\ UNCHANGED exceptFused

\* line 289: lock (vertices)
UpdateLatestFrame_Lock ==
    /\ mergePc.at = "lock"
    /\ MonitorFree(lockOwner)
    /\ lockOwner' = "worker"
    /\ mergePc' = [at |-> "clear", i |-> 0]
    /\ UNCHANGED <<Vertices, Colors, cameraFrames, encodePc, encoded, merges, encodes>>
    /\ UNCHANGED exceptFused

\* lines 291-292: vertices.Clear(); colors.Clear()
UpdateLatestFrame_Clear ==
    /\ mergePc.at = "clear"
    /\ Vertices' = <<>>
    /\ Colors' = <<>>
    /\ mergePc' = [at |-> "add", i |-> 1]
    /\ UNCHANGED <<cameraFrames, lockOwner, encodePc, encoded, merges, encodes>>
    /\ UNCHANGED exceptFused

\* lines 296-300: one iteration of the for loop, vertices.AddRange
UpdateLatestFrame_AddVertices ==
    /\ mergePc.at = "add"
    /\ mergePc.i <= Len(cameraFrames)
    /\ LET f == cameraFrames[mergePc.i]
       IN  Vertices' = Vertices \o VerticesOfCamera(mergePc.i, f.frame, f.size)
    /\ mergePc' = [mergePc EXCEPT !.at = "add_colors"]
    /\ UNCHANGED <<Colors, cameraFrames, lockOwner, encodePc, encoded, merges, encodes>>
    /\ UNCHANGED exceptFused

\* line 299: colors.AddRange, and i++
UpdateLatestFrame_AddColors ==
    /\ mergePc.at = "add_colors"
    /\ LET f == cameraFrames[mergePc.i]
       IN  Colors' = Colors \o ColorsOfCamera(mergePc.i, f.frame, f.size)
    /\ mergePc' = [at |-> "add", i |-> mergePc.i + 1]
    /\ UNCHANGED <<Vertices, cameraFrames, lockOwner, encodePc, encoded, merges, encodes>>
    /\ UNCHANGED exceptFused

\* lines 302-303: the loop has ended; the monitor is released
UpdateLatestFrame_Unlock ==
    /\ mergePc.at = "add"
    /\ mergePc.i > Len(cameraFrames)
    /\ lockOwner' = IF lockOwner = "worker" THEN "none" ELSE lockOwner
    /\ mergePc' = [at |-> "sleep", i |-> 0]
    /\ UNCHANGED <<Vertices, Colors, cameraFrames, encodePc, encoded, merges, encodes>>
    /\ UNCHANGED exceptFused

\* SendPointCloudToAllClients, line 266: lock (Vertices), for a viewer that
\* has asked for a frame
SendPointCloudToAllClients_Lock ==
    /\ encodePc = "delay"
    /\ encodes < MaxEncodes
    /\ MonitorFree(lockOwner)
    /\ lockOwner' = "broadcaster"
    /\ encodePc' = "vertices"
    /\ UNCHANGED <<Vertices, Colors, cameraFrames, mergePc, encoded, merges, encodes>>
    /\ UNCHANGED exceptFused

\* PointCloudTransferSocket.SendPointCloud, lines 52-73: the loop reads the
\* vertices into filteredVertices
SendPointCloud_ReadVertices ==
    /\ encodePc = "vertices"
    /\ encoded' = [vertices |-> Vertices, colors |-> <<>>]
    /\ encodePc' = "colors"
    /\ UNCHANGED <<Vertices, Colors, cameraFrames, lockOwner, mergePc, merges, encodes>>
    /\ UNCHANGED exceptFused

\* lines 84-88: the loop reads the colours of the points it keeps; the frame
\* is written and the monitor released
SendPointCloud_ReadColors ==
    /\ encodePc = "colors"
    /\ encoded' = [encoded EXCEPT !.colors = Colors]
    /\ encodes' = encodes + 1
    /\ lockOwner' = IF lockOwner = "broadcaster" THEN "none" ELSE lockOwner
    /\ encodePc' = "delay"
    /\ UNCHANGED <<Vertices, Colors, cameraFrames, mergePc, merges>>
    /\ UNCHANGED exceptFused

UpdateWorkerStep ==
    \/ UpdateLatestFrame_Get
    \/ UpdateLatestFrame_Lock
    \/ UpdateLatestFrame_Clear
    \/ UpdateLatestFrame_AddVertices
    \/ UpdateLatestFrame_AddColors
    \/ UpdateLatestFrame_Unlock

BroadcasterStep ==
    \/ SendPointCloudToAllClients_Lock
    \/ SendPointCloud_ReadVertices
    \/ SendPointCloud_ReadColors

NextFuse == UpdateWorkerStep \/ BroadcasterStep

SpecFuse == InitPipeline /\ [][NextFuse]_vars

RECURSIVE FusedOf(_, _, _)
\* what a complete pass of the for loop of UpdateLatestFrame leaves in a list
FusedOf(frames, i, of) ==
    IF i > Len(frames) THEN <<>>
    ELSE PointsOfCamera(i, frames[i].frame, frames[i].size, of)
            \o FusedOf(frames, i + 1, of)

\* the frames UpdateLatestFrame can have fetched
FetchedFrames ==
    {<<>>} \cup {[c \in FuseCams |-> [frame |-> n, size |-> sizes[c]]] :
                   n \in 1 .. MaxMerges, sizes \in [FuseCams -> 0 .. 1]}

\* the frame is the whole of one fetched frame, vertices and colours
CompleteFrame(frame) ==
    \E frames \in FetchedFrames :
        /\ frame.vertices = FusedOf(frames, 1, "vertex")
        /\ frame.colors = FusedOf(frames, 1, "color")

exceptStopped == <<serverVars, pipeVars, confVars, workerVars, transferVars, exceptStop>>

serverStopVars == <<isPointCloudServerRunning, tokenCancelled, listening, timerEnabled,
                    handlerPending, clientSockets, listVersion, stopPc, acceptPc,
                    broadcastPc, connects>>

clientStopVars == <<isExitRequested, isClientThreadRunning, runPc, confirmationsPc,
                    stopClientPc>>

\* a task has ended: its loop has exited, or an exception has left it
Ended == {"exited", "faulted"}

\* the test of the while loops of the two tasks
KeepsRunning_Always(runningFlag, cancelled) == TRUE

KeepsRunning(runningFlag, cancelled) == runningFlag /\ ~cancelled

\* ConnectPointCloudClients, line 204: the test of the while loop
ConnectPointCloudClients_Test ==
    /\ acceptPc = "test"
    /\ acceptPc' = IF KeepsRunning(isPointCloudServerRunning, tokenCancelled)
                   THEN "call" ELSE "exited"
    /\ UNCHANGED <<isPointCloudServerRunning, tokenCancelled, listening, timerEnabled,
                   handlerPending, clientSockets, listVersion, stopPc, broadcastPc, connects>>
    /\ UNCHANGED <<clientStopVars, exceptStopped>>

\* line 209: AcceptTcpClient is called; on a listener that has been stopped
\* it throws InvalidOperationException, which the task does not catch
ConnectPointCloudClients_Call ==
    /\ acceptPc = "call"
    /\ acceptPc' = IF listening THEN "blocked" ELSE "faulted"
    /\ UNCHANGED <<isPointCloudServerRunning, tokenCancelled, listening, timerEnabled,
                   handlerPending, clientSockets, listVersion, stopPc, broadcastPc, connects>>
    /\ UNCHANGED <<clientStopVars, exceptStopped>>

\* a viewer connects: AcceptTcpClient returns
ConnectPointCloudClients_Accept ==
    /\ acceptPc = "blocked"
    /\ listening
    /\ connects < MaxConnects
    /\ connects' = connects + 1
    /\ acceptPc' = "add"
    /\ UNCHANGED <<isPointCloudServerRunning, tokenCancelled, listening, timerEnabled,
                   handlerPending, clientSockets, listVersion, stopPc, broadcastPc>>
    /\ UNCHANGED <<clientStopVars, exceptStopped>>

\* lines 217-219: the listener is stopped while AcceptTcpClient blocks; the
\* SocketException is caught
ConnectPointCloudClients_Interrupted ==
    /\ acceptPc = "blocked"
    /\ ~listening
    /\ acceptPc' = "delay"
    /\ UNCHANGED <<isPointCloudServerRunning, tokenCancelled, listening, timerEnabled,
                   handlerPending, clientSockets, listVersion, stopPc, broadcastPc, connects>>
    /\ UNCHANGED <<clientStopVars, exceptStopped>>

\* lines 212-215: the Add, under pointCloudClientLock
ConnectPointCloudClients_Add ==
    /\ acceptPc = "add"
    /\ clientSockets' = Append(clientSockets, TRUE)
    /\ listVersion' = listVersion + 1
    /\ acceptPc' = "delay"
    /\ UNCHANGED <<isPointCloudServerRunning, tokenCancelled, listening, timerEnabled,
                   handlerPending, stopPc, broadcastPc, connects>>
    /\ UNCHANGED <<clientStopVars, exceptStopped>>

\* line 221: await Task.Delay(100)
ConnectPointCloudClients_Delay ==
    /\ acceptPc = "delay"
    /\ acceptPc' = "test"
    /\ UNCHANGED <<isPointCloudServerRunning, tokenCancelled, listening, timerEnabled,
                   handlerPending, clientSockets, listVersion, stopPc, broadcastPc, connects>>
    /\ UNCHANGED <<clientStopVars, exceptStopped>>

\* the viewer closes its connection
CloseViewer ==
    /\ \E i \in DOMAIN clientSockets :
         /\ clientSockets[i]
         /\ clientSockets' = [clientSockets EXCEPT ![i] = FALSE]
    /\ UNCHANGED <<isPointCloudServerRunning, tokenCancelled, listening, timerEnabled,
                   handlerPending, listVersion, stopPc, acceptPc, broadcastPc, connects>>
    /\ UNCHANGED <<clientStopVars, exceptStopped>>

\* pointCloudConnectionTimer raises Elapsed: the handler is queued to the
\* thread pool
Elapsed_Raise ==
    /\ timerEnabled
    /\ ~handlerPending
    /\ handlerPending' = TRUE
    /\ UNCHANGED <<isPointCloudServerRunning, tokenCancelled, listening, timerEnabled,
                   clientSockets, listVersion, stopPc, acceptPc, broadcastPc, connects>>
    /\ UNCHANGED <<clientStopVars, exceptStopped>>

\* StartPointCloudServer, lines 79-92: the handler, under
\* pointCloudClientLock; every RemoveAt changes the version of the list
Elapsed_Handler ==
    /\ handlerPending
    /\ handlerPending' = FALSE
    /\ clientSockets' = SelectSeq(clientSockets, LAMBDA connected : connected)
    /\ listVersion' = listVersion + (Len(clientSockets) - Len(clientSockets'))
    /\ UNCHANGED <<isPointCloudServerRunning, tokenCancelled, listening, timerEnabled,
                   stopPc, acceptPc, broadcastPc, connects>>
    /\ UNCHANGED <<clientStopVars, exceptStopped>>

\* SendPointCloudToAllClients, line 260: the test of the while loop
SendPointCloudToAllClients_Test ==
    /\ broadcastPc = "test"
    /\ broadcastPc' = IF KeepsRunning(isPointCloudServerRunning, tokenCancelled)
                      THEN "for" ELSE "exited"
    /\ UNCHANGED <<isPointCloudServerRunning, tokenCancelled, listening, timerEnabled,
                   handlerPending, clientSockets, listVersion, stopPc, acceptPc, connects>>
    /\ UNCHANGED <<clientStopVars, exceptStopped>>

\* lines 263-270: the for loop; a socket that has been closed makes
\* SendPointCloud throw, and the task does not catch it
SendPointCloudToAllClients_For ==
    /\ broadcastPc = "for"
    /\ \/ broadcastPc' = "delay"
       \/ /\ \E i \in DOMAIN clientSockets : ~clientSockets[i]
          /\ broadcastPc' = "faulted"
    /\ UNCHANGED <<isPointCloudServerRunning, tokenCancelled, listening, timerEnabled,
                   handlerPending, clientSockets, listVersion, stopPc, acceptPc, connects>>
    /\ UNCHANGED <<clientStopVars, exceptStopped>>

\* line 272: await Task.Delay(10)
SendPointCloudToAllClients_Delay ==
    /\ broadcastPc = "delay"
    /\ broadcastPc' = "test"
    /\ UNCHANGED <<isPointCloudServerRunning, tokenCancelled, listening, timerEnabled,
                   handlerPending, clientSockets, listVersion, stopPc, acceptPc, connects>>
    /\ UNCHANGED <<clientStopVars, exceptStopped>>

\* StopPointCloudServer, lines 144-152: the flag, the timer, the token
StopPointCloudServer_Begin ==
    /\ stopPc.at = "none"
    /\ isPointCloudServerRunning
    /\ isPointCloudServerRunning' = FALSE
    /\ timerEnabled' = FALSE
    /\ tokenCancelled' = TRUE
    /\ stopPc' = [stopPc EXCEPT !.at = "enumerate"]
    /\ UNCHANGED <<listening, handlerPending, clientSockets, listVersion, acceptPc,
                   broadcastPc, connects>>
    /\ UNCHANGED <<clientStopVars, exceptStopped>>

\* line 154: foreach takes the enumerator of the list, without the lock
StopPointCloudServer_GetEnumerator ==
    /\ stopPc.at = "enumerate"
    /\ stopPc' = [at |-> "foreach", version |-> listVersion]
    /\ UNCHANGED <<isPointCloudServerRunning, tokenCancelled, listening, timerEnabled,
                   handlerPending, clientSockets, listVersion, acceptPc, broadcastPc,
                   connects>>
    /\ UNCHANGED <<clientStopVars, exceptStopped>>

\* lines 154-157: the iterations of the foreach; MoveNext throws
\* InvalidOperationException when the list has changed since the enumerator
\* was taken, otherwise every socket is closed
StopPointCloudServer_Foreach ==
    /\ stopPc.at = "foreach"
    /\ IF listVersion # stopPc.version
       THEN /\ stopPc' = [stopPc EXCEPT !.at = "thrown"]
            /\ UNCHANGED clientSockets
       ELSE /\ stopPc' = [stopPc EXCEPT !.at = "listener"]
            /\ clientSockets' = [i \in DOMAIN clientSockets |-> FALSE]
    /\ UNCHANGED <<isPointCloudServerRunning, tokenCancelled, listening, timerEnabled,
                   handlerPending, listVersion, acceptPc, broadcastPc, connects>>
    /\ UNCHANGED <<clientStopVars, exceptStopped>>

\* line 160: pointCloudListener.Stop()
StopPointCloudServer_StopListener ==
    /\ stopPc.at = "listener"
    /\ listening' = FALSE
    /\ stopPc' = [stopPc EXCEPT !.at = "clear"]
    /\ UNCHANGED <<isPointCloudServerRunning, tokenCancelled, timerEnabled,
                   handlerPending, clientSockets, listVersion, acceptPc, broadcastPc,
                   connects>>
    /\ UNCHANGED <<clientStopVars, exceptStopped>>

\* lines 162-163: the Clear, under pointCloudClientLock
StopPointCloudServer_Clear ==
    /\ stopPc.at = "clear"
    /\ clientSockets' = <<>>
    /\ listVersion' = listVersion + 1
    /\ stopPc' = [stopPc EXCEPT !.at = "returned"]
    /\ UNCHANGED <<isPointCloudServerRunning, tokenCancelled, listening, timerEnabled,
                   handlerPending, acceptPc, broadcastPc, connects>>
    /\ UNCHANGED <<clientStopVars, exceptStopped>>

\* LiveScanClient::Run, lines 108-111: the test of the main loop and one
\* UpdateFrame.  The first read of isExitRequested, which the constructor
\* does not initialise, finds either value.
Run_Loop ==
    /\ runPc = "loop"
    /\ \E exit \in IF isExitRequested = <<>> THEN BOOLEAN ELSE {isExitRequested[1]} :
         /\ isExitRequested' = <<exit>>
         /\ runPc' = IF exit THEN "stop_thread" ELSE "loop"
    /\ UNCHANGED <<isClientThreadRunning, confirmationsPc, stopClientPc>>
    /\ UNCHANGED <<serverStopVars, exceptStopped>>

\* line 113: isClientThreadRunning = false
Run_StopThread ==
    /\ runPc = "stop_thread"
    /\ isClientThreadRunning' = FALSE
    /\ runPc' = "join"
    /\ UNCHANGED <<isExitRequested, confirmationsPc, stopClientPc>>
    /\ UNCHANGED <<serverStopVars, exceptStopped>>

\* line 114: t1.join()
Run_Join ==
    /\ runPc = "join"
    /\ confirmationsPc = "exited"
    /\ runPc' = "returned"
    /\ UNCHANGED <<isExitRequested, isClientThreadRunning, confirmationsPc, stopClientPc>>
    /\ UNCHANGED <<serverStopVars, exceptStopped>>

\* SendClientConfirmations, line 306: the test of its while loop, after one
\* pass over the flags and the sleep
SendClientConfirmations_Test ==
    /\ confirmationsPc = "poll"
    /\ confirmationsPc' = IF isClientThreadRunning THEN "poll" ELSE "exited"
    /\ UNCHANGED <<isExitRequested, isClientThreadRunning, runPc, stopClientPc>>
    /\ UNCHANGED <<serverStopVars, exceptStopped>>

\* StopClient, liveScanClientApi.cpp line 49: RequestExit
StopClient_RequestExit ==
    /\ stopClientPc = "none"
    /\ isExitRequested' = <<TRUE>>
    /\ stopClientPc' = "join"
    /\ UNCHANGED <<isClientThreadRunning, runPc, confirmationsPc>>
    /\ UNCHANGED <<serverStopVars, exceptStopped>>

\* lines 51-52: wrapper->thread.join()
StopClient_Join ==
    /\ stopClientPc = "join"
    /\ runPc = "returned"
    /\ stopClientPc' = "returned"
    /\ UNCHANGED <<isExitRequested, isClientThreadRunning, runPc, confirmationsPc>>
    /\ UNCHANGED <<serverStopVars, exceptStopped>>

AcceptTaskStep ==
    \/ ConnectPointCloudClients_Test
    \/ ConnectPointCloudClients_Call
    \/ ConnectPointCloudClients_Interrupted
    \/ ConnectPointCloudClients_Add
    \/ ConnectPointCloudClients_Delay

BroadcastTaskStep ==
    \/ SendPointCloudToAllClients_Test
    \/ SendPointCloudToAllClients_For
    \/ SendPointCloudToAllClients_Delay

StopServerStep ==
    \/ StopPointCloudServer_GetEnumerator
    \/ StopPointCloudServer_Foreach
    \/ StopPointCloudServer_StopListener
    \/ StopPointCloudServer_Clear

RunStep == Run_Loop \/ Run_StopThread \/ Run_Join

NextStop ==
    \/ AcceptTaskStep
    \/ ConnectPointCloudClients_Accept
    \/ CloseViewer
    \/ Elapsed_Raise
    \/ Elapsed_Handler
    \/ BroadcastTaskStep
    \/ StopPointCloudServer_Begin
    \/ StopServerStep
    \/ RunStep
    \/ SendClientConfirmations_Test
    \/ StopClient_RequestExit
    \/ StopClient_Join

\* every task and thread keeps being scheduled, a queued handler of the
\* timer runs, and a caller goes on with the call it has begun
SpecStop ==
    /\ InitPipeline
    /\ [][NextStop]_vars
    /\ WF_vars(AcceptTaskStep)
    /\ WF_vars(BroadcastTaskStep)
    /\ WF_vars(Elapsed_Handler)
    /\ WF_vars(StopServerStep)
    /\ WF_vars(RunStep)
    /\ WF_vars(SendClientConfirmations_Test)
    /\ WF_vars(StopClient_Join)

\* C27: once StopPointCloudServer has asked the tasks to stop, the accept
\* task and the broadcaster end; once StopClient has requested the exit, the
\* main loop and the confirmations thread end and StopClient returns.
C27_TasksTerminate ==
    /\ (stopPc.at # "none") ~> (acceptPc \in Ended /\ broadcastPc \in Ended)
    /\ (stopClientPc = "join") ~> (stopClientPc = "returned")

\* the part of C27 about the pipeline
PipelineStops ==
    (stopClientPc = "join") ~> (stopClientPc = "returned")

\* the part of C27 about the point cloud server, when the foreach of
\* StopPointCloudServer did not throw
ServerStopsUnlessThrown ==
    (stopPc.at = "listener") ~> (acceptPc \in Ended /\ broadcastPc \in Ended)

(***************************************************************************)
(* The detection result: the callback of OrbbecCaptureManager stores it on *)
(* the detector thread, LiveScanClient::UpdateFrame consumes it            *)
(***************************************************************************)
exceptResults == <<serverVars, pipeVars, confVars, workerVars, transferVars, exceptResult>>

\* DocumentDetector::StartDetectionThread, lines 86-95, and the callback of
\* OrbbecCaptureManager, lines 35-38: a document has been found and its
\* height, width, data and score are stored.  The results are numbered.
DetectionCallback_Store ==
    /\ callbackPc = "idle"
    /\ stored < MaxStored
    /\ stored' = stored + 1
    /\ lastDocument' = stored + 1
    /\ callbackPc' = "flag"
    /\ UNCHANGED <<hasNewDocument, documentPc, processedDocuments>>
    /\ UNCHANGED exceptResults

\* the callback, line 39: hasNewDocument = true
DetectionCallback_Flag ==
    /\ callbackPc = "flag"
    /\ hasNewDocument' = TRUE
    /\ callbackPc' = "idle"
    /\ UNCHANGED <<lastDocument, stored, documentPc, processedDocuments>>
    /\ UNCHANGED exceptResults

\* UpdateFrame, line 360, on a frame that was acquired: the test of
\* hasNewDocument
UpdateFrame_HasNewDocument ==
    /\ documentPc = "test"
    /\ hasNewDocument
    /\ documentPc' = "process"
    /\ UNCHANGED <<hasNewDocument, lastDocument, callbackPc, stored, processedDocuments>>
    /\ UNCHANGED exceptResults

\* line 362: ProcessDocument reads the result the capture manager holds
UpdateFrame_ProcessDocument ==
    /\ documentPc = "process"
    /\ processedDocuments' = Append(processedDocuments, lastDocument)
    /\ documentPc' = "clear"
    /\ UNCHANGED <<hasNewDocument, lastDocument, callbackPc, stored>>
    /\ UNCHANGED exceptResults

\* line 363: hasNewDocument = false
UpdateFrame_ClearNewDocument ==
    /\ documentPc = "clear"
    /\ hasNewDocument' = FALSE
    /\ documentPc' = "test"
    /\ UNCHANGED <<lastDocument, callbackPc, stored, processedDocuments>>
    /\ UNCHANGED exceptResults

NextResult ==
    \/ DetectionCallback_Store
    \/ DetectionCallback_Flag
    \/ UpdateFrame_HasNewDocument
    \/ UpdateFrame_ProcessDocument
    \/ UpdateFrame_ClearNewDocument

SpecResult == InitPipeline /\ [][NextResult]_vars

\* C30: a result the callback has stored is not lost: whenever the worker is
\* between frames, the callback is over and hasNewDocument is false, the
\* result the capture manager holds is one ProcessDocument was called for.
C30_StoredResultProcessed ==
    (documentPc = "test" /\ callbackPc = "idle" /\ ~hasNewDocument /\ stored > 0)
        => \E i \in DOMAIN processedDocuments : processedDocuments[i] = lastDocument
====
